---- MODULE Spec2Model ----
(***************************************************************************)
(* Colligo: synchronisation of a workspace of git projects against a       *)
(* manifest.  The model covers the sync orchestrator (application.rs),     *)
(* the git provider (version_control.rs) and the progress monitor          *)
(* (process_command).  git itself is the environment: each git subcommand  *)
(* is an operator on an abstract repository record, and the outcomes the   *)
(* environment decides (network, process spawning, conflicts) are inputs   *)
(* chosen with \E in the actions.                                          *)
(***************************************************************************)
EXTENDS Naturals, Integers, Sequences, FiniteSets, TLC

VARIABLES
    projects,    \* ManifestInstance.projects: sequence of Project records
    opts,        \* arguments of the running sync: mode, lightweight, quiet, force
    run,         \* number of sync calls started so far
    orch,        \* position of ManifestInstance::sync
    spawned,     \* number of workers spawned by the running sync
    pc,          \* position of each project's worker task
    res,         \* `result` local of each worker
    chan,        \* the mpsc channel: results sent and not yet received
    errors,      \* `errors` local of sync
    syncResult,  \* value returned by the last sync
    repo,        \* working copy / repository of each project on disk
    remote,      \* tip commit of each project's branch on the remote
    atStart,     \* per project: its repository when the running sync started
    hist,        \* per worker: the results of the stages it has run, in order
    pb,          \* progress indicator of each project
    fault,       \* per worker: the environment made a step of this run fail
    mon,         \* one process_command call: child process, capture, indicator
    progress_bars, \* `progress_bars` local of sync: indicators not yet handed out
    barOf,       \* per worker: the indicator moved into its task (0: None)
    manifest,    \* ManifestInstance.filename and .file
    pin,         \* one ManifestInstance::pin call
    xml,         \* one XmlParser::parse / compose call
    written      \* the locations of the workspace each worker of this sync wrote

vars == <<projects, opts, run, orch, spawned, pc, res, chan, errors,
          syncResult, repo, remote, atStart, hist, pb, fault, mon,
          progress_bars, barOf, manifest, pin, xml, written>>

(* the state of sync and of the workspace *)
workVars == <<projects, opts, run, orch, spawned, pc, res, chan, errors,
              syncResult, repo, remote, atStart, hist, pb, fault,
              progress_bars, barOf, manifest, written>>

syncVars == <<workVars, pin, xml>>

(***************************************************************************)
(* Bounds of the model.                                                    *)
(***************************************************************************)
MaxProjects == 2
MaxSyncs == 2
MaxCommit == 2
MaxChunks == 3
MaxActions == 3
MaxWorkers == 86

(* channel(255) *)
ChannelCapacity == 255

(***************************************************************************)
(* Projects                                                                *)
(***************************************************************************)
LINKFILE == "linkfile"
COPYFILE == "copyfile"
COPYDIR == "copydir"
DELETE_PROJECT == "delete_project"

BranchNames == {"dev", "main"}
TagNames == {"v0.0.0"}
CommitIds == {"565b113"}
Revisions == BranchNames \cup TagNames \cup CommitIds

PathOf(i) == <<"dev", "release/v0", "no_revision", "extra">>[i]

Project(uri, name, revision, path, actions) ==
    [uri |-> uri, name |-> name, revision |-> revision, path |-> path,
     actions |-> actions]

get_uri_https(project) ==
    <<"https://", project.uri, "/", project.name, ".git">>

get_uri_ssh(project) ==
    <<"git@", project.uri, ":", project.name, ".git">>

(***************************************************************************)
(* ManifestError and its Display                                           *)
(***************************************************************************)
OkResult == [ok |-> TRUE, variant |-> "Ok", msg |-> <<>>]

Err(variant, msg) == [ok |-> FALSE, variant |-> variant, msg |-> msg]

DisplayPrefix(variant) ==
    CASE variant = "FailedToInitialize" -> "Failed to initialize repository: "
      [] variant = "FailedToExecuteAction" -> "Failed to execute action: "
      [] variant = "FailedToCheckoutRepository" -> "Failed to checkout repository: "
      [] variant = "FailedToGetCommitId" -> "Failed to get commit id: "
      [] variant = "FailedToSync" -> "Failed to sync manifest: "
      [] OTHER -> "Failed: "

Display(e) == <<DisplayPrefix(e.variant)>> \o e.msg

(***************************************************************************)
(* Progress monitor: what process_command returns.  A diagnostic line or   *)
(* chunk is a sequence of words; `contains` is the substring test.         *)
(***************************************************************************)
contains(line, word) == \E i \in 1..Len(line) : line[i] = word

IsMarkerLine(line) == contains(line, "fatal") \/ contains(line, "error")

RECURSIVE Fold(_)
Fold(lines) ==
    IF lines = <<>> THEN <<>> ELSE Head(lines) \o Fold(Tail(lines))

(* stderr_capture.iter().position(..) and the fold from there on *)
ErrorMessage(capture) ==
    LET marked == {i \in 1..Len(capture) : IsMarkerLine(capture[i])}
    IN  IF marked # {}
        THEN LET start == CHOOSE i \in marked : \A j \in marked : i <= j
             IN  Fold(SubSeq(capture, start, Len(capture)))
        ELSE <<"Failed to capture git error message">>

(* An exit arm that also fails a command whose capture has a marker line. *)
ExitArmMarkers(success, capture) ==
    IF success /\ ~\E i \in 1..Len(capture) : IsMarkerLine(capture[i])
    THEN [ok |-> TRUE, err |-> <<>>]
    ELSE [ok |-> FALSE, err |-> ErrorMessage(capture)]

(* The exit_status arm of the select! loop. *)
ExitArm(success, capture) ==
    IF success THEN [ok |-> TRUE, err |-> <<>>]
    ELSE [ok |-> FALSE, err |-> ErrorMessage(capture)]

(* A call that fails whenever the child wrote a marker line. *)
process_commandStrict(out) ==
    IF ~out.spawn
    THEN [panic |-> TRUE, ok |-> FALSE, err |-> <<>>]
    ELSE [panic |-> FALSE]
         @@ ExitArm(out.exitOk /\ ~\E i \in 1..Len(out.stderr) :
                                     IsMarkerLine(out.stderr[i]),
                    out.stderr)

(* A whole call on a child that behaves as `out` says: spawn (or panic),  *)
(* read everything the child wrote, take its exit status.                 *)
process_command(out) ==
    IF ~out.spawn
    THEN [panic |-> TRUE, ok |-> FALSE, err |-> <<>>]
    ELSE [panic |-> FALSE] @@ ExitArm(out.exitOk, out.stderr)

(***************************************************************************)
(* git, the external tool.  A repository on disk:                          *)
(*   exists    the project directory exists                                *)
(*   inited    it holds a git repository                                   *)
(*   origin    URL of remote origin, or <<>> when there is none            *)
(*   head      checked-out commit (0: unborn)                              *)
(*   attached  HEAD is on a branch                                         *)
(*   branchTip tip of the local branch of the project's branch revision    *)
(*   tracking  tip of the remote-tracking branch (0: none)                 *)
(*   fetchHead FETCH_HEAD (0: nothing fetched yet)                         *)
(*   dirty     tracked files are modified                                  *)
(*   untracked untracked files are present                                 *)
(*   shallow   history is depth-limited                                    *)
(*   ahead     the local branch has a commit of the user on top of `head`  *)
(*   merged    the local branch has a merge commit                         *)
(* The tracked content of the working copy is that of commit `head`        *)
(* unless `dirty`.                                                         *)
(***************************************************************************)
Absent ==
    [exists |-> FALSE, inited |-> FALSE, origin |-> <<>>, head |-> 0,
     attached |-> FALSE, branchTip |-> 0, tracking |-> 0, fetchHead |-> 0,
     dirty |-> FALSE, untracked |-> FALSE, shallow |-> FALSE,
     ahead |-> FALSE, merged |-> FALSE]

(* The commit a revision names on the remote whose branch tip is `tip`. *)
Resolve(revision, tip) == IF revision \in BranchNames THEN tip ELSE 1

Progress == << <<"Receiving objects:", "50%">>, <<"Receiving objects:", "100%">> >>

Noise == << <<"*", "[new branch]", "fix", "error", "handling">>,
            <<"*", "[new tag]", "fatal", "v1">> >>

Chatter(env) == IF env.noise THEN Noise ELSE Progress

GitOut(r, exitOk, stderr) == [repo |-> r, exitOk |-> exitOk, stderr |-> stderr]

(* a git init that starts the repository afresh *)
GitInitAfresh(r) ==
    [Absent EXCEPT !.exists = TRUE, !.inited = TRUE, !.attached = TRUE]

(* git init --quiet *)
GitInit(r) ==
    IF r.inited THEN r
    ELSE [r EXCEPT !.exists = TRUE, !.inited = TRUE, !.attached = TRUE]

(* git remote get-url origin *)
GitRemoteGetUrl(r) == r.origin # <<>>

(* git remote add origin url / git remote set-url origin url *)
GitRemoteSet(r, url) == [r EXCEPT !.origin = url]

(* git rev-parse --is-shallow-repository *)
GitIsShallow(r) == IF r.shallow THEN "true" ELSE "false"

(* git fetch <args> against a remote whose branch tip is `tip` *)
GitFetch(r, args, tip, env) ==
    LET depth == \E i \in 1..Len(args) : args[i] = "--depth"
        unshallow == \E i \in 1..Len(args) : args[i] = "--unshallow"
        refspec == args[Len(args)]
    IN  IF ~env.net \/ r.origin = <<>>
        THEN GitOut(r, FALSE, << <<"fatal", "unable to access remote">> >>)
        ELSE IF depth /\ refspec \in CommitIds /\ ~env.sha
        THEN GitOut(r, FALSE,
                 << <<"error", "Server does not allow request for unadvertised object">> >>)
        ELSE IF depth
        THEN GitOut([r EXCEPT !.fetchHead = Resolve(refspec, tip),
                              !.tracking = IF refspec \in BranchNames
                                           THEN tip ELSE @,
                              !.shallow = TRUE],
                    TRUE, Chatter(env))
        ELSE GitOut([r EXCEPT !.fetchHead = tip, !.tracking = tip,
                              !.shallow = IF unshallow THEN FALSE ELSE @],
                    TRUE, Chatter(env))

(* git checkout <what> --progress [--force] *)
GitCheckout(r, args, env) ==
    LET what == args[2]
        force == \E i \in 1..Len(args) : args[i] = "--force"
        known == r.fetchHead # 0
        found == IF what = "FETCH_HEAD" THEN known
                 ELSE IF what \in BranchNames
                 THEN r.branchTip # 0 \/ r.tracking # 0
                 ELSE known
        dest == IF what = "FETCH_HEAD" THEN r.fetchHead
                ELSE IF what \in BranchNames
                THEN (IF r.branchTip # 0 THEN r.branchTip ELSE r.tracking)
                ELSE 1
        clash == ~force /\ dest # r.head /\ env.conflict
    IN  IF ~found
        THEN GitOut(r, FALSE,
                 << <<"error", "pathspec did not match any file(s) known to git">> >>)
        ELSE IF clash /\ r.dirty
        THEN GitOut(r, FALSE,
                 << <<"error", "Your local changes would be overwritten by checkout">>,
                    <<"Please commit your changes or stash them">>,
                    <<"Aborting">> >>)
        ELSE IF clash /\ r.untracked
        THEN GitOut(r, FALSE,
                 << <<"error", "untracked working tree files would be overwritten by checkout">>,
                    <<"Please move or remove them">>,
                    <<"Aborting">> >>)
        ELSE GitOut([r EXCEPT !.head = dest,
                              !.attached = (what \in BranchNames),
                              !.branchTip = IF what \in BranchNames
                                            THEN dest ELSE @,
                              !.dirty = IF force THEN FALSE ELSE @],
                    TRUE, Chatter(env))

(* stdout of git status --porcelain, untracked files listed too *)
GitStatusPorcelainAll(r) ==
    (IF r.dirty THEN <<" M README.md">> ELSE <<>>)
        \o (IF r.untracked THEN <<"?? new_file">> ELSE <<>>)

(* stdout of git status --porcelain --untracked-files=no *)
GitStatusPorcelain(r) == IF r.dirty THEN <<" M README.md">> ELSE <<>>

(* stdout of git status *)
GitStatus(r) ==
    IF r.attached THEN <<"On branch", "dev">> ELSE <<"HEAD detached at", "565b113">>

(* git merge --ff-only --progress: fast-forwards, or fails when the local   *)
(* branch and its upstream have diverged                                    *)
GitMergeFF(r, env) ==
    IF r.tracking = 0
    THEN GitOut(r, FALSE, << <<"fatal", "No remote for the current branch.">> >>)
    ELSE IF r.ahead /\ r.tracking > r.head
    THEN GitOut(r, FALSE, << <<"fatal", "Not possible to fast-forward, aborting.">> >>)
    ELSE IF r.tracking > r.head
    THEN GitOut([r EXCEPT !.head = r.tracking, !.branchTip = r.tracking],
                TRUE, Chatter(env))
    ELSE GitOut(r, TRUE, << <<"Already up to date.">> >>)

(* git merge --progress: as above, but diverged histories are joined by a   *)
(* merge commit                                                             *)
GitMergeCommit(r, env) ==
    IF r.tracking # 0 /\ r.ahead /\ r.tracking > r.head
    THEN GitOut([r EXCEPT !.head = r.tracking, !.branchTip = r.tracking,
                          !.merged = TRUE],
                TRUE, Chatter(env))
    ELSE GitMergeFF(r, env)

(* git merge <args> *)
GitMerge(r, args, env) ==
    IF \E i \in 1..Len(args) : args[i] = "--ff-only" THEN GitMergeFF(r, env)
    ELSE GitMergeCommit(r, env)

(***************************************************************************)
(* GitVersionControl                                                       *)
(***************************************************************************)
VcsOut(r, result) == [repo |-> r, result |-> result]

init_repository(r, fs) ==
    IF fs = "repository"
    THEN VcsOut([r EXCEPT !.exists = TRUE],
                Err("FailedToInitialize", <<"git init failed">>))
    ELSE VcsOut(GitInit(r), OkResult)

init_origin(r, url, fs) ==
    LET exists == GitRemoteGetUrl(r)
    IN  IF fs = "origin"
        THEN VcsOut(r, Err("FailedToInitialize",
                           IF exists THEN <<"git remote set-url failed">>
                           ELSE <<"git remote add failed">>))
        ELSE VcsOut(GitRemoteSet(r, url), OkResult)

(* an init that takes the ssh URL for HTTPS and the https URL for SSH *)
initSwapped(r, project, mode, fs) ==
    LET url == IF mode = "HTTPS" THEN get_uri_ssh(project)
               ELSE get_uri_https(project)
        a == init_repository(r, fs)
    IN  IF a.result.ok THEN init_origin(a.repo, url, fs) ELSE a

(* GitVersionControl::init; fs: what the file system / git lets succeed *)
init(r, project, mode, fs) ==
    LET url == IF mode = "HTTPS" THEN get_uri_https(project)
               ELSE get_uri_ssh(project)
        a == init_repository(r, fs)
    IN  IF a.result.ok THEN init_origin(a.repo, url, fs) ELSE a

(* fetch arguments that never ask to unshallow *)
get_fetch_argsNoUnshallow(r, lightweight, revision) ==
    IF ~r.inited
    THEN [ok |-> FALSE, args |-> <<>>]
    ELSE IF lightweight
    THEN [ok |-> TRUE,
          args |-> <<"fetch", "--progress", "--tags", "--prune", "--depth",
                     "1", "origin", revision>>]
    ELSE [ok |-> TRUE,
          args |-> <<"fetch", "--progress", "--tags", "--prune", "origin">>]

get_fetch_args(r, lightweight, revision) ==
    LET is_shallow == GitIsShallow(r) = "true"
    IN  IF ~r.inited
        THEN [ok |-> FALSE, args |-> <<>>]
        ELSE IF lightweight
        THEN [ok |-> TRUE,
              args |-> <<"fetch", "--progress", "--tags", "--prune", "--depth",
                         "1", "origin", revision>>]
        ELSE IF is_shallow
        THEN [ok |-> TRUE,
              args |-> <<"fetch", "--progress", "--tags", "--prune",
                         "--unshallow", "origin">>]
        ELSE [ok |-> TRUE,
              args |-> <<"fetch", "--progress", "--tags", "--prune", "origin">>]

is_branch(r) == contains(GitStatus(r), "On branch")

(* a checkout that never passes --force *)
CheckoutArgsNoForce(project, force, lightweight) ==
    IF lightweight THEN <<"checkout", "FETCH_HEAD", "--progress">>
    ELSE <<"checkout", project.revision, "--progress">>

CheckoutArgs(project, force, lightweight) ==
    IF force THEN <<"checkout", project.revision, "--progress", "--force">>
    ELSE IF lightweight THEN <<"checkout", "FETCH_HEAD", "--progress">>
    ELSE <<"checkout", project.revision, "--progress">>

CoOut(r, result, panic, finished, steps) ==
    [repo |-> r, result |-> result, panic |-> panic, finished |-> finished,
     steps |-> steps]

CoErr(project, err) ==
    Err("FailedToCheckoutRepository", <<project.path, "\n">> \o err \o <<"\n">>)

DirtyMsg(project) ==
    <<project.path, ", repository is dirty, please commit or stash your changes">>

(* message.is_empty() *)
IsDirtyInverted(message) == message = <<>>

(* !message.is_empty() *)
IsDirty(message) == message # <<>>

(* a merge without --ff-only *)
MergeArgsNoFF == <<"merge", "--progress">>

MergeArgs == <<"merge", "--ff-only", "--progress">>

(* the fast-forward step and the end of GitVersionControl::checkout *)
CheckoutMerge(r, project, env, steps) ==
    IF is_branch(r)
    THEN LET g == GitMerge(r, MergeArgs, env)
             m == process_command([spawn |-> env.spawnFail # 3,
                                   exitOk |-> g.exitOk, stderr |-> g.stderr])
         IN  IF m.panic THEN CoOut(r, OkResult, TRUE, FALSE, steps)
             ELSE IF ~m.ok
             THEN CoOut(g.repo, CoErr(project, m.err), FALSE, FALSE,
                        Append(steps, "merge"))
             ELSE CoOut(g.repo, OkResult, FALSE, TRUE, Append(steps, "merge"))
    ELSE CoOut(r, OkResult, FALSE, TRUE, steps)

(* a checkout that goes on to the merge whatever git status prints *)
CheckoutSwitchNoGuard(r, project, force, lightweight, env, steps) ==
    LET args == CheckoutArgs(project, force, lightweight)
        g == GitCheckout(r, args, env)
        m == process_command([spawn |-> env.spawnFail # 2,
                              exitOk |-> g.exitOk, stderr |-> g.stderr])
    IN  IF m.panic THEN CoOut(r, OkResult, TRUE, FALSE, steps)
        ELSE IF ~m.ok
        THEN CoOut(g.repo, CoErr(project, m.err), FALSE, FALSE,
                   Append(steps, "checkout"))
        ELSE CheckoutMerge(g.repo, project, env,
                           steps \o <<"checkout", "status">>)

(* A checkout that looks at git status first and leaves a dirty working *)
(* copy where it is.                                                    *)
CheckoutSwitchGuardFirst(r, project, force, lightweight, env, steps) ==
    IF ~force /\ IsDirty(GitStatusPorcelain(r))
    THEN CoOut(r, Err("FailedToCheckoutRepository", DirtyMsg(project)),
               FALSE, FALSE, steps \o <<"checkout", "status">>)
    ELSE CheckoutSwitchNoGuard(r, project, force, lightweight, env, steps)

(* the checkout step and the dirty guard *)
CheckoutSwitch(r, project, force, lightweight, env, steps) ==
    LET args == CheckoutArgs(project, force, lightweight)
        g == GitCheckout(r, args, env)
        m == process_command([spawn |-> env.spawnFail # 2,
                              exitOk |-> g.exitOk, stderr |-> g.stderr])
        message == GitStatusPorcelain(g.repo)
    IN  IF m.panic THEN CoOut(r, OkResult, TRUE, FALSE, steps)
        ELSE IF ~m.ok
        THEN CoOut(g.repo, CoErr(project, m.err), FALSE, FALSE,
                   Append(steps, "checkout"))
        ELSE IF IsDirty(message)
        THEN CoOut(g.repo,
                   Err("FailedToCheckoutRepository", DirtyMsg(project)),
                   FALSE, FALSE, steps \o <<"checkout", "status">>)
        ELSE CheckoutMerge(g.repo, project, env,
                           steps \o <<"checkout", "status">>)

(* GitVersionControl::checkout.  env: net (the remote answers), spawnFail   *)
(* (which monitored command cannot be spawned, 0: none), conflict (local    *)
(* files clash with the target revision), noise (marker words in the        *)
(* diagnostics of commands that succeed), sha (the remote serves a commit   *)
(* that a shallow fetch asks for by its identifier).  tip: the remote's     *)
(* branch tip.                                                              *)
checkout(r, project, force, lightweight, env, tip) ==
    LET fa == get_fetch_args(r, lightweight, project.revision)
        g == GitFetch(r, fa.args, tip, env)
        m == process_command([spawn |-> env.spawnFail # 1,
                              exitOk |-> g.exitOk, stderr |-> g.stderr])
    IN  IF ~fa.ok
        THEN CoOut(r, Err("FailedToCheckoutRepository", <<"git rev-parse failed">>),
                   FALSE, FALSE, <<>>)
        ELSE IF m.panic THEN CoOut(r, OkResult, TRUE, FALSE, <<>>)
        ELSE IF ~m.ok
        THEN CoOut(g.repo, CoErr(project, m.err), FALSE, FALSE, <<"fetch">>)
        ELSE CheckoutSwitch(g.repo, project, force, lightweight, env, <<"fetch">>)

(* is_modified *)
is_modified(r) == IsDirty(GitStatusPorcelain(r))

(***************************************************************************)
(* execute_actions.  failAt: the action the file system refuses (0: none). *)
(***************************************************************************)
FileAction(tag, src, dest) == [tag |-> tag, src |-> src, dest |-> dest]

DeleteProject == [tag |-> DELETE_PROJECT, src |-> "", dest |-> ""]

ActionErr(project, action) ==
    Err("FailedToExecuteAction",
        IF action.tag = DELETE_PROJECT
        THEN <<"Failed to remove directory ", project.path>>
        ELSE IF action.tag = LINKFILE
        THEN <<"Failed to create symlink ", project.path, "/", action.src,
               " to ", action.dest>>
        ELSE IF action.tag = COPYFILE
        THEN <<"Failed to copy file ", project.path, "/", action.src,
               " to ", action.dest>>
        ELSE <<"Failed to copy directory ", project.path, "/", action.src,
               " to ", action.dest>>)

(* what execute_actions leaves: the repository, the result and, for the *)
(* record, the actions it ran (their places in the list)               *)
ExecOut(r, result, steps) == [repo |-> r, result |-> result, steps |-> steps]

(* An executor that goes on with the next action after a failure and *)
(* returns the first error at the end.                               *)
RECURSIVE ExecFromKeepGoing(_, _, _, _)
ExecFromKeepGoing(r, project, i, failAt) ==
    IF i > Len(project.actions) THEN ExecOut(r, OkResult, <<>>)
    ELSE LET action == project.actions[i]
             failed == failAt = i \/ (action.tag = DELETE_PROJECT /\ ~r.exists)
             rest == ExecFromKeepGoing(
                        IF action.tag = DELETE_PROJECT /\ ~failed
                        THEN Absent ELSE r,
                        project, i + 1, failAt)
         IN  ExecOut(rest.repo,
                     IF failed THEN ActionErr(project, action) ELSE rest.result,
                     <<i>> \o rest.steps)

(* for action in project.get_actions() { .. ? .. } *)
RECURSIVE ExecFrom(_, _, _, _)
ExecFrom(r, project, i, failAt) ==
    IF i > Len(project.actions) THEN ExecOut(r, OkResult, <<>>)
    ELSE LET action == project.actions[i]
         IN  IF failAt = i \/ (action.tag = DELETE_PROJECT /\ ~r.exists)
             THEN ExecOut(r, ActionErr(project, action), <<i>>)
             ELSE LET rest == ExecFrom(IF action.tag = DELETE_PROJECT
                                       THEN Absent ELSE r,
                                       project, i + 1, failAt)
                  IN  [rest EXCEPT !.steps = <<i>> \o @]

execute_actions(r, project, failAt) == ExecFrom(r, project, 1, failAt)

(* Path::parent of a location given relative to the manifest directory "." *)
ParentOf(loc) ==
    CASE loc = "release/v0" -> "release"
      [] loc = "new_folder/ln_README.md" -> "new_folder"
      [] loc = "new_dev/src" -> "new_dev"
      [] OTHER -> "."

(* location a is b or lies in the subtree of b *)
RECURSIVE Under(_, _)
Under(a, b) ==
    IF a = b \/ b = "." THEN TRUE
    ELSE IF a = "." THEN FALSE
    ELSE Under(ParentOf(a), b)

(* an executor that resolves a delete to the manifest directory *)
ActionTargetDir(project, action) ==
    IF action.tag = DELETE_PROJECT THEN "." ELSE action.dest

(* the location an action removes and writes: manifest_dir.join(dest) for a *)
(* link or a copy, manifest_dir.join(project.get_path()) for a delete       *)
ActionTarget(project, action) ==
    IF action.tag = DELETE_PROJECT THEN project.path ELSE action.dest

(* the locations execute_actions writes, the action that fails included *)
RECURSIVE WritesFrom(_, _, _, _)
WritesFrom(r, project, i, failAt) ==
    IF i > Len(project.actions) THEN {}
    ELSE LET action == project.actions[i]
         IN  IF action.tag = DELETE_PROJECT /\ ~r.exists THEN {}
             ELSE {ActionTarget(project, action)} \cup
                  (IF failAt = i THEN {}
                   ELSE WritesFrom(IF action.tag = DELETE_PROJECT THEN Absent ELSE r,
                                   project, i + 1, failAt))

ActionWrites(r, project, failAt) == WritesFrom(r, project, 1, failAt)

(***************************************************************************)
(* XmlParser.  A manifest text is a sequence of lines; a line is a tag     *)
(* with its indentation, its attributes in the order they are written and  *)
(* the way it ends ("/>", ">", "?>"); a closing tag is named "/tag".       *)
(***************************************************************************)
DEFAULT_REVISION == "main"

DEFAULT_HOST == "github.com"

Line(indent, name, attrs, end) ==
    [indent |-> indent, name |-> name, attrs |-> attrs, end |-> end]

XML_HEADER ==
    Line(0, "?xml", << <<"version", "1.0">>, <<"encoding", "UTF-8">> >>, "?>")

ROOT_BEGIN == Line(0, "manifest", <<>>, ">")

ROOT_END == Line(0, "/manifest", <<>>, ">")

PROJECT_END == Line(4, "/project", <<>>, ">")

(* node.attribute(key): <<>> for None, <<value>> for Some(value) *)
attribute(node, key) ==
    LET at == {i \in 1..Len(node.attrs) : node.attrs[i][1] = key}
    IN  IF at = {} THEN <<>>
        ELSE <<node.attrs[CHOOSE i \in at : \A j \in at : i <= j][2]>>

unwrap_or(option, default) == IF option = <<>> THEN default ELSE option[1]

(* n.is_element(): neither the declaration, a comment nor a closing tag *)
is_element(line) ==
    line.name \notin {"?xml", "!--", "/manifest", "/project"}

(* DefaultParameters::new: the first <default> of the document *)
DefaultParameters(text) ==
    LET at == {i \in 1..Len(text) : text[i].name = "default"}
        default == IF at = {} THEN <<>>
                   ELSE <<text[CHOOSE i \in at : \A j \in at : i <= j]>>
    IN  [revision |-> IF default = <<>> THEN DEFAULT_REVISION
                      ELSE unwrap_or(attribute(default[1], "revision"),
                                     DEFAULT_REVISION),
         uri |-> IF default = <<>> THEN DEFAULT_HOST
                 ELSE unwrap_or(attribute(default[1], "uri"), DEFAULT_HOST)]

(* a revision that falls back to the constant, whatever <default> says *)
get_revisionNoDefault(node, default) ==
    unwrap_or(attribute(node, "revision"), DEFAULT_REVISION)

get_revision(node, default) ==
    unwrap_or(attribute(node, "revision"), default.revision)

get_uri(node, default) == unwrap_or(attribute(node, "uri"), default.uri)

is_file_action(action) == action \in {LINKFILE, COPYFILE, COPYDIR}

is_delete_project(action) == action = DELETE_PROJECT

add_file_action(actions, action, src, dst) ==
    IF is_file_action(action) THEN Append(actions, FileAction(action, src, dst))
    ELSE actions

add_delete_project(actions) ==
    IF \E i \in 1..Len(actions) : actions[i] = DeleteProject THEN actions
    ELSE Append(actions, DeleteProject)

(* the comparison sort_actions sorts by *)
Compare(a, b) ==
    IF a = DeleteProject /\ b = DeleteProject THEN "Equal"
    ELSE IF a = DeleteProject THEN "Greater"
    ELSE IF b = DeleteProject THEN "Less"
    ELSE "Equal"

(* An insertion that puts a file action before the ones already there. *)
InsertFirst(sorted, x) ==
    IF x = DeleteProject THEN Append(sorted, x) ELSE <<x>> \o sorted

(* sort_by is a stable sort: an element goes after the last one that is *)
(* not greater than it                                                  *)
RECURSIVE InsertStable(_, _)
InsertStable(sorted, x) ==
    IF sorted = <<>> THEN <<x>>
    ELSE IF Compare(sorted[Len(sorted)], x) = "Greater"
    THEN Append(InsertStable(SubSeq(sorted, 1, Len(sorted) - 1), x),
                sorted[Len(sorted)])
    ELSE Append(sorted, x)

RECURSIVE SortFrom(_, _)
SortFrom(sorted, rest) ==
    IF rest = <<>> THEN sorted
    ELSE SortFrom(InsertStable(sorted, Head(rest)), Tail(rest))

(* actions left in the order they were added *)
sort_actionsNone(actions) == actions

sort_actions(actions) == SortFrom(<<>>, actions)

(* the element children of the project element at line i *)
Children(text, i) ==
    IF text[i].end = "/>" THEN <<>>
    ELSE LET closes == {j \in (i + 1)..Len(text) : text[j].name = "/project"}
             close == CHOOSE j \in closes : \A k \in closes : j <= k
         IN  SelectSeq(SubSeq(text, i + 1, close - 1), is_element)

ParseErr(msg) ==
    [ok |-> FALSE, projects |-> <<>>,
     err |-> Err("FailedToParseManifest", <<msg>>)]

RECURSIVE AddFrom(_, _)
AddFrom(children, actions) ==
    IF children = <<>> THEN [ok |-> TRUE, actions |-> actions]
    ELSE LET action == Head(children)
             action_name == action.name
         IN  IF is_file_action(action_name)
             THEN IF attribute(action, "src") # <<>>
                     /\ attribute(action, "dest") # <<>>
                  THEN AddFrom(Tail(children),
                               add_file_action(actions, action_name,
                                               attribute(action, "src")[1],
                                               attribute(action, "dest")[1]))
                  ELSE [ok |-> FALSE, actions |-> actions]
             ELSE IF is_delete_project(action_name)
             THEN AddFrom(Tail(children), add_delete_project(actions))
             ELSE AddFrom(Tail(children), actions)

(* add_actions: the actions of a project element, DeleteProject last *)
add_actions(children) ==
    LET a == AddFrom(children, <<>>)
    IN  IF a.ok THEN [ok |-> TRUE, actions |-> sort_actions(a.actions)] ELSE a

(* Document::parse accepts the text: one root, every project element that *)
(* is opened is closed before the next one, every other element is empty  *)
WellFormed(text) ==
    /\ Len(text) >= 2
    /\ \E r \in 1..Len(text) :
         /\ text[r] = ROOT_BEGIN
         /\ \A i \in 1..Len(text) :
              (is_element(text[i]) /\ i # r) \/ text[i].name = "/project"
                  => r < i
    /\ text[Len(text)] = ROOT_END
    /\ \A i \in 1..(Len(text) - 1) : text[i].name # "/manifest"
    /\ \A i \in 1..Len(text) :
         /\ (text[i].name = "project" /\ text[i].end = ">") =>
              \E j \in (i + 1)..Len(text) :
                  /\ text[j].name = "/project"
                  /\ \A k \in (i + 1)..(j - 1) :
                       text[k].name \notin {"project", "/project", "default"}
         /\ text[i].name = "/project" =>
              \E j \in 1..(i - 1) :
                  /\ text[j].name = "project" /\ text[j].end = ">"
                  /\ \A k \in (j + 1)..(i - 1) :
                       text[k].name \notin {"project", "/project"}
         /\ (is_element(text[i]) /\ text[i].name \notin {"project", "manifest"})
              => text[i].end = "/>"

(* A parser that leaves out a project it cannot read and goes on. *)
RECURSIVE ParseFromSkipping(_, _, _, _)
ParseFromSkipping(text, default, i, prjs) ==
    IF i > Len(text) THEN [ok |-> TRUE, projects |-> prjs, err |-> OkResult]
    ELSE IF text[i].name # "project"
    THEN ParseFromSkipping(text, default, i + 1, prjs)
    ELSE LET project == text[i]
             name == attribute(project, "name")
             path == attribute(project, "path")
             acts == add_actions(Children(text, i))
         IN  IF name = <<>> \/ path = <<>> \/ ~acts.ok
             THEN ParseFromSkipping(text, default, i + 1, prjs)
             ELSE ParseFromSkipping(text, default, i + 1,
                     Append(prjs,
                            Project(get_uri(project, default), name[1],
                                    get_revision(project, default), path[1],
                                    acts.actions)))

(* the loop of XmlParser::parse over the project elements *)
RECURSIVE ParseFrom(_, _, _, _)
ParseFrom(text, default, i, prjs) ==
    IF i > Len(text) THEN [ok |-> TRUE, projects |-> prjs, err |-> OkResult]
    ELSE IF text[i].name # "project"
    THEN ParseFrom(text, default, i + 1, prjs)
    ELSE LET project == text[i]
             name == attribute(project, "name")
             path == attribute(project, "path")
             revision == get_revision(project, default)
             uri == get_uri(project, default)
             acts == add_actions(Children(text, i))
         IN  IF name = <<>>
             THEN ParseErr("<project --> name= <-- /> is missing")
             ELSE IF path = <<>>
             THEN ParseErr("<project --> path= <-- /> is missing")
             ELSE IF ~acts.ok
             THEN ParseErr("<[linkfile or copyfile] /> is missing src or dest")
             ELSE ParseFrom(text, default, i + 1,
                            Append(prjs,
                                   Project(uri, name[1], revision, path[1],
                                           acts.actions)))

(* XmlParser::parse *)
parse(text) ==
    IF ~WellFormed(text) THEN ParseErr("Unable to parse XML")
    ELSE ParseFrom(text, DefaultParameters(text), 1, <<>>)

ProjectAttrs(project) ==
    << <<"uri", project.uri>>, <<"name", project.name>>,
       <<"path", project.path>>, <<"revision", project.revision>> >>

(* the line project_to_xml writes for an action *)
action_xml(action) ==
    IF action = DeleteProject THEN Line(8, "delete-project", <<>>, "/>")
    ELSE Line(8, action.tag,
              << <<"src", action.src>>, <<"dest", action.dest>> >>, "/>")

project_to_xml(project) ==
    IF project.actions = <<>>
    THEN <<Line(4, "project", ProjectAttrs(project), "/>")>>
    ELSE <<Line(4, "project", ProjectAttrs(project), ">")>>
         \o [i \in 1..Len(project.actions) |-> action_xml(project.actions[i])]
         \o <<PROJECT_END>>

RECURSIVE ComposeFrom(_)
ComposeFrom(prjs) ==
    IF prjs = <<>> THEN <<>>
    ELSE project_to_xml(Head(prjs)) \o ComposeFrom(Tail(prjs))

(* XmlParser::compose *)
compose(prjs) == <<XML_HEADER, ROOT_BEGIN>> \o ComposeFrom(prjs) \o <<ROOT_END>>

(* the line of a manifest file for an action, as the parser reads it *)
ActionElement(action) ==
    IF action = DeleteProject THEN Line(8, DELETE_PROJECT, <<>>, "/>")
    ELSE action_xml(action)

RECURSIVE ProjectElements(_)
ProjectElements(prjs) ==
    IF prjs = <<>> THEN <<>>
    ELSE LET project == Head(prjs)
         IN  (IF project.actions = <<>>
              THEN <<Line(4, "project", ProjectAttrs(project), "/>")>>
              ELSE <<Line(4, "project", ProjectAttrs(project), ">")>>
                   \o [i \in 1..Len(project.actions) |->
                         ActionElement(project.actions[i])]
                   \o <<PROJECT_END>>)
             \o ProjectElements(Tail(prjs))

(* a manifest file whose projects are `prjs` *)
ManifestText(prjs) ==
    <<XML_HEADER, ROOT_BEGIN>> \o ProjectElements(prjs) \o <<ROOT_END>>

(***************************************************************************)
(* Inputs: manifests and sync options                                      *)
(***************************************************************************)
Catalog ==
    << Project("gitlab.com", "cdsa_rust/manifest", "dev", PathOf(1),
               <<FileAction(LINKFILE, "README.md", "new_folder/ln_README.md")>>),
       Project("gitlab.com", "cdsa_rust/manifest", "v0.0.0", PathOf(2), <<>>),
       Project("gitlab.com", "cdsa_rust/manifest", "main", PathOf(3),
               <<FileAction(COPYFILE, "README.md", "cp_README.md"), DeleteProject>>),
       Project("gitlab.com", "cdsa_rust/manifest", "565b113", PathOf(4), <<>>) >>

(* manifests of 1..MaxProjects projects *)
Manifests == {SubSeq(Catalog, 1, n) : n \in 1..MaxProjects}

ActionLists ==
    { <<>>,
      <<FileAction(COPYDIR, "src", "new_dev/src"), DeleteProject>> }

(* manifests of one project, on a branch or on a tag, kept or deleted     *)
(* after its actions                                                      *)
SingleManifests ==
    { <<Project("gitlab.com", "cdsa_rust/manifest", rev, PathOf(1), acts)>> :
        rev \in {"dev", "v0.0.0"}, acts \in ActionLists }

Options ==
    [mode : {"HTTPS", "SSH"}, lightweight : BOOLEAN, quiet : BOOLEAN,
     force : BOOLEAN]

(* what the environment decides during one checkout; a command that cannot *)
(* be spawned makes the other choices irrelevant                           *)
CheckoutEnvs ==
    {e \in [net : BOOLEAN, spawnFail : 0..3, conflict : BOOLEAN, noise : BOOLEAN,
            sha : BOOLEAN] :
        e.spawnFail # 0 => (e.net /\ ~e.conflict /\ ~e.noise /\ e.sha)}

(* the choices that matter to the checkout of a project: whether the remote *)
(* serves commits by identifier only matters to a shallow fetch of one      *)
EnvsFor(project, lightweight) ==
    {e \in CheckoutEnvs :
        ~(lightweight /\ project.revision \in CommitIds) => e.sha}

N == Len(projects)

NoResult == [ok |-> FALSE, variant |-> "None", msg |-> <<>>]

(* what is left of a task whose stage panicked *)
Panicked == [ok |-> FALSE, variant |-> "Panic", msg |-> <<>>]

MonIdle == [state |-> "idle"]

PinIdle == [state |-> "idle"]

XmlIdle == [state |-> "idle"]

(* an entry of hist: a stage that was run and what it returned *)
Ran(stage, result) == [stage |-> stage, result |-> result]

(* an entry of hist for a checkout: the git commands it ran and the       *)
(* arguments of its fetch too                                              *)
RanSteps(stage, result, steps, fetch) ==
    [stage |-> stage, result |-> result, steps |-> steps, fetch |-> fetch]

HasDelete(project) ==
    \E i \in 1..Len(project.actions) : project.actions[i].tag = DELETE_PROJECT

(* Project i is synced and clean: its working copy holds the commit its    *)
(* revision names on the remote, with no local file added or modified; a   *)
(* project that deletes itself after its actions is synced when absent.    *)
Synced(i) ==
    IF HasDelete(projects[i]) THEN repo[i] = Absent
    ELSE /\ repo[i].inited
         /\ repo[i].head = Resolve(projects[i].revision, remote[i])
         /\ ~repo[i].dirty
         /\ ~repo[i].untracked

StartOf(i) ==
    [synced |-> Synced(i), dirty |-> repo[i].dirty,
     untracked |-> repo[i].untracked, inited |-> repo[i].inited,
     origin |-> repo[i].origin, head |-> repo[i].head]

InitWith(manifests) ==
    /\ projects \in manifests
    /\ opts = [mode |-> "SSH", lightweight |-> FALSE, quiet |-> FALSE,
               force |-> FALSE]
    /\ run = 0
    /\ orch = "idle"
    /\ spawned = 0
    /\ pc = [i \in 1..N |-> "idle"]
    /\ res = [i \in 1..N |-> OkResult]
    /\ chan = <<>>
    /\ errors = <<>>
    /\ syncResult = NoResult
    /\ repo = [i \in 1..N |-> Absent]
    /\ remote = [i \in 1..N |-> 1]
    /\ atStart = [i \in 1..N |->
                  [synced |-> FALSE, dirty |-> FALSE, untracked |-> FALSE,
                   inited |-> FALSE, origin |-> <<>>]]
    /\ hist = [i \in 1..N |-> <<>>]
    /\ pb = [i \in 1..N |-> "none"]
    /\ fault = [i \in 1..N |-> FALSE]
    /\ mon = MonIdle
    /\ progress_bars = <<>>
    /\ barOf = [i \in 1..N |-> 0]
    /\ manifest = [filename |-> "manifest.xml", file |-> ManifestText(projects)]
    /\ pin = PinIdle
    /\ xml = XmlIdle
    /\ written = {}

Init == InitWith(Manifests)

InitVcs == InitWith(SingleManifests)

(***************************************************************************)
(* ManifestInstance::sync                                                  *)
(***************************************************************************)
(* sync is called: progress bars are allocated, the channel is created *)
StartSync(o) ==
    /\ orch \in {"idle", "returned"}
    /\ opts' = o
    /\ run' = run + 1
    /\ orch' = "spawn"
    /\ spawned' = 0
    /\ pc' = [i \in 1..N |-> "idle"]
    /\ res' = [i \in 1..N |-> OkResult]
    /\ chan' = <<>>
    /\ errors' = <<>>
    /\ syncResult' = NoResult
    /\ atStart' = [i \in 1..N |-> StartOf(i)]
    /\ hist' = [i \in 1..N |-> <<>>]
    /\ pb' = [i \in 1..N |-> IF o.quiet THEN "none" ELSE "active"]
    /\ fault' = [i \in 1..N |-> FALSE]
    /\ progress_bars' = [i \in 1..N |-> IF o.quiet THEN 0 ELSE i]
    /\ barOf' = [i \in 1..N |-> 0]
    /\ written' = {}
    /\ UNCHANGED <<projects, repo, remote, mon, manifest, pin, xml>>

(* progress_bars.last().cloned(): the vector keeps the indicator *)
last(v) == [value |-> v[Len(v)], rest |-> v]

(* progress_bars.pop() *)
pop(v) == [value |-> v[Len(v)], rest |-> SubSeq(v, 1, Len(v) - 1)]

(* one turn of the loop that spawns a task for each project, with the      *)
(* indicator progress_bars.pop() gives it; after the last turn drop(tx)    *)
(* leaves the orchestrator with the receiver only                          *)
Spawn ==
    /\ orch = "spawn"
    /\ spawned < N
    /\ spawned' = spawned + 1
    /\ pc' = [pc EXCEPT ![spawned + 1] = "init"]
    /\ orch' = IF spawned + 1 = N THEN "drain" ELSE "spawn"
    /\ barOf' = [barOf EXCEPT ![spawned + 1] = pop(progress_bars).value]
    /\ progress_bars' = pop(progress_bars).rest
    /\ UNCHANGED <<projects, opts, run, res, chan, errors, syncResult,
                   repo, remote, atStart, hist, pb, fault, mon,
                   manifest, pin, xml,
                   written>>

(* a channel created with a tenth of the capacity *)
CanSendSmall == Len(chan) < ChannelCapacity \div 10

(* send_result(&tx, result): the send completes when the channel has room *)
CanSend == Len(chan) < ChannelCapacity

(* pb.finish() on an Option<ProgressBar> *)
Finish(bar) == IF bar # "none" THEN "finished" ELSE bar

(* a task that goes on to the next stage whatever the result *)
AfterStageAlways(stage, result) ==
    IF stage = "init" THEN "checkout"
    ELSE IF stage = "checkout" THEN "actions"
    ELSE "done"

(* if result.is_ok() { next stage }: where the task goes after a stage *)
AfterStage(stage, result) ==
    IF ~result.ok THEN "done"
    ELSE IF stage = "init" THEN "checkout"
    ELSE IF stage = "checkout" THEN "actions"
    ELSE "done"

(* result = vcs.init(..); send_result(..); a task that ends finishes its    *)
(* progress bar and drops its sender                                        *)
WorkerInit(p) ==
    /\ pc[p] = "init"
    /\ CanSend
    /\ \E fs \in {"ok", "repository", "origin"} :
         LET a == init(repo[p], projects[p], opts.mode, fs)
             to == AfterStage("init", a.result)
         IN  /\ repo' = [repo EXCEPT ![p] = a.repo]
             /\ res' = [res EXCEPT ![p] = a.result]
             /\ hist' = [hist EXCEPT ![p] = Append(@, Ran("init", a.result))]
             /\ chan' = Append(chan, a.result)
             /\ pc' = [pc EXCEPT ![p] = to]
             /\ pb' = [pb EXCEPT ![p] = IF to = "done" THEN Finish(@) ELSE @]
             /\ fault' = [fault EXCEPT ![p] = @ \/ fs # "ok"]
             /\ written' = written \cup {<<projects[p].path, p>>}
    /\ UNCHANGED <<projects, opts, run, orch, spawned, errors, syncResult,
                   remote, atStart, mon,
                   progress_bars, barOf, manifest, pin, xml>>

(* result = vcs.checkout(..); send_result(..).  A monitored command that    *)
(* cannot be spawned panics the task: nothing is sent, the sender is        *)
(* dropped, the progress bar is not finished.                               *)
WorkerCheckout(p) ==
    /\ pc[p] = "checkout"
    /\ CanSend
    /\ \E env \in EnvsFor(projects[p], opts.lightweight) :
         LET c == checkout(repo[p], projects[p], opts.force, opts.lightweight,
                           env, remote[p])
             to == IF c.panic THEN "panicked" ELSE AfterStage("checkout", c.result)
             bar == IF c.finished THEN Finish(pb[p]) ELSE pb[p]
         IN  /\ repo' = [repo EXCEPT ![p] = c.repo]
             /\ res' = [res EXCEPT ![p] = IF c.panic THEN @ ELSE c.result]
             /\ hist' = [hist EXCEPT ![p] =
                           Append(@, RanSteps("checkout",
                                              IF c.panic THEN Panicked ELSE c.result,
                                              c.steps,
                                              get_fetch_args(repo[p], opts.lightweight,
                                                  projects[p].revision).args))]
             /\ chan' = IF c.panic THEN chan ELSE Append(chan, c.result)
             /\ pc' = [pc EXCEPT ![p] = to]
             /\ pb' = [pb EXCEPT ![p] = IF to = "done" THEN Finish(bar) ELSE bar]
             /\ fault' = [fault EXCEPT ![p] =
                            @ \/ c.panic \/ (~c.result.ok /\ (~env.net \/ ~env.sha))]
             /\ written' = IF c.steps = <<>> THEN written
                           ELSE written \cup {<<projects[p].path, p>>}
    /\ UNCHANGED <<projects, opts, run, orch, spawned, errors, syncResult,
                   remote, atStart, mon,
                   progress_bars, barOf, manifest, pin, xml>>

(* result = execute_actions(..); send_result(..); the task ends *)
WorkerActions(p) ==
    /\ pc[p] = "actions"
    /\ CanSend
    /\ \E failAt \in 0..Len(projects[p].actions) :
         LET a == execute_actions(repo[p], projects[p], failAt)
         IN  /\ repo' = [repo EXCEPT ![p] = a.repo]
             /\ res' = [res EXCEPT ![p] = a.result]
             /\ hist' = [hist EXCEPT ![p] = Append(@, RanSteps("actions", a.result,
                                                             a.steps, <<>>))]
             /\ chan' = Append(chan, a.result)
             /\ pc' = [pc EXCEPT ![p] = AfterStage("actions", a.result)]
             /\ fault' = [fault EXCEPT ![p] = @ \/ failAt # 0]
             /\ written' = written \cup
                   {<<l, p>> : l \in ActionWrites(repo[p], projects[p], failAt)}
    /\ pb' = [pb EXCEPT ![p] = Finish(@)]
    /\ UNCHANGED <<projects, opts, run, orch, spawned, errors, syncResult,
                   remote, atStart, mon,
                   progress_bars, barOf, manifest, pin, xml>>

(* A receive loop that starts once every task has ended. *)
RecvAfterJoin ==
    /\ orch = "drain"
    /\ \A p \in 1..N : pc[p] \in {"done", "panicked"}
    /\ chan # <<>>
    /\ chan' = Tail(chan)
    /\ errors' = IF Head(chan).ok THEN errors
                 ELSE Append(errors, Display(Head(chan)))
    /\ UNCHANGED <<projects, opts, run, orch, spawned, pc, res, syncResult,
                   repo, remote, atStart, hist, pb, fault, mon,
                   progress_bars, barOf, manifest, pin, xml,
                   written>>

(* one turn of while let Some(error) = rx.recv().await *)
Recv ==
    /\ orch = "drain"
    /\ chan # <<>>
    /\ chan' = Tail(chan)
    /\ errors' = IF Head(chan).ok THEN errors
                 ELSE Append(errors, Display(Head(chan)))
    /\ UNCHANGED <<projects, opts, run, orch, spawned, pc, res, syncResult,
                   repo, remote, atStart, hist, pb, fault, mon,
                   progress_bars, barOf, manifest, pin, xml,
                   written>>

RECURSIVE Lines(_)
Lines(msgs) ==
    IF msgs = <<>> THEN <<>>
    ELSE Head(msgs) \o <<"\n">> \o Lines(Tail(msgs))

(* the value sync returns from the errors it collected *)
Aggregate(errs) ==
    IF errs # <<>> THEN Err("FailedToSync", <<"\n\n">> \o Lines(errs))
    ELSE OkResult

(* a receive loop that gives up at the first error it receives *)
ChannelClosedOnError ==
    \/ errors # <<>>
    \/ /\ chan = <<>>
       /\ \A p \in 1..N : pc[p] \in {"done", "panicked"}

(* a receive loop that ends as soon as it finds the channel empty *)
ChannelClosedWhenEmpty == chan = <<>>

(* rx.recv() yields None: the channel is empty and every sender is dropped, *)
(* that is, every task has ended                                            *)
ChannelClosed ==
    /\ chan = <<>>
    /\ \A p \in 1..N : pc[p] \in {"done", "panicked"}

(* the receive loop ends and sync returns *)
Return ==
    /\ orch = "drain"
    /\ ChannelClosed
    /\ syncResult' = Aggregate(errors)
    /\ orch' = "returned"
    /\ UNCHANGED <<projects, opts, run, spawned, pc, res, chan, errors,
                   repo, remote, atStart, hist, pb, fault, mon,
                   progress_bars, barOf, manifest, pin, xml,
                   written>>

SyncStep ==
    \/ Spawn
    \/ \E p \in 1..N : WorkerInit(p)
    \/ \E p \in 1..N : WorkerCheckout(p)
    \/ \E p \in 1..N : WorkerActions(p)
    \/ Recv
    \/ Return

(* the command line runs sync *)
FirstSync(options) ==
    /\ run = 0
    /\ \E o \in options : StartSync(o)

(* One sync of a fresh workspace, over ssh (the command line's default). *)
Next == FirstSync({o \in Options : o.mode = "SSH"}) \/ SyncStep

Spec == Init /\ [][Next]_vars

(***************************************************************************)
(* The user and the remote between two sync runs                           *)
(***************************************************************************)
(* the command is run again, with the same verbosity *)
Resync ==
    /\ run > 0
    /\ run < MaxSyncs
    /\ \E o \in Options : o.quiet = opts.quiet /\ StartSync(o)

(* sync is not running, and will be run again; what happens between two   *)
(* runs puts an end to the run that returned                              *)
Between == orch \in {"idle", "returned"} /\ run < MaxSyncs

(* the user edits a tracked file *)
UserModify(p) ==
    /\ Between
    /\ repo[p].head # 0
    /\ ~repo[p].dirty
    /\ repo' = [repo EXCEPT ![p].dirty = TRUE]
    /\ orch' = "idle"
    /\ UNCHANGED <<projects, opts, run, spawned, pc, res, chan, errors,
                   syncResult, remote, atStart, hist, pb, fault, mon,
                   progress_bars, barOf, manifest, pin, xml,
                   written>>

(* the user creates a new file *)
UserAddFile(p) ==
    /\ Between
    /\ repo[p].exists
    /\ ~repo[p].untracked
    /\ repo' = [repo EXCEPT ![p].untracked = TRUE]
    /\ orch' = "idle"
    /\ UNCHANGED <<projects, opts, run, spawned, pc, res, chan, errors,
                   syncResult, remote, atStart, hist, pb, fault, mon,
                   progress_bars, barOf, manifest, pin, xml,
                   written>>

(* the user commits on the branch that is checked out *)
UserCommit(p) ==
    /\ Between
    /\ repo[p].head # 0
    /\ repo[p].attached
    /\ ~repo[p].ahead
    /\ repo' = [repo EXCEPT ![p].ahead = TRUE]
    /\ orch' = "idle"
    /\ UNCHANGED <<projects, opts, run, spawned, pc, res, chan, errors,
                   syncResult, remote, atStart, hist, pb, fault, mon,
                   progress_bars, barOf, manifest, pin, xml, written>>

(* somebody pushes a commit to the project's branch *)
RemotePush(p) ==
    /\ Between
    /\ remote[p] < MaxCommit
    /\ remote' = [remote EXCEPT ![p] = @ + 1]
    /\ orch' = "idle"
    /\ UNCHANGED <<projects, opts, run, spawned, pc, res, chan, errors,
                   syncResult, repo, atStart, hist, pb, fault, mon,
                   progress_bars, barOf, manifest, pin, xml,
                   written>>

(* Repeated syncs of one project, without progress bars, the user and the *)
(* remote acting between.                                                 *)
NextVcs ==
    \/ FirstSync({o \in Options : o.quiet})
    \/ SyncStep
    \/ Resync
    \/ \E p \in 1..N : UserModify(p)
    \/ \E p \in 1..N : UserAddFile(p)
    \/ \E p \in 1..N : RemotePush(p)

SpecVcs == InitVcs /\ [][NextVcs]_vars

(***************************************************************************)
(* One sync of one project whose revision is a branch, a tag or a commit   *)
(* identifier (what a pinned manifest holds), under every option           *)
(***************************************************************************)
RevisionManifests ==
    { <<Project("gitlab.com", "cdsa_rust/manifest", rev, PathOf(1), <<>>)>> :
        rev \in Revisions }

InitShallow == InitWith(RevisionManifests)

NextShallow == FirstSync(Options) \/ SyncStep

SpecShallow == InitShallow /\ [][NextShallow]_vars

(***************************************************************************)
(* Repeated syncs over ssh of one project on a branch, a tag or a commit,  *)
(* the user committing and the remote moving between                       *)
(***************************************************************************)
NextMerge ==
    \/ FirstSync({o \in Options : o.mode = "SSH" /\ o.quiet})
    \/ SyncStep
    \/ Resync /\ opts'.mode = "SSH"
    \/ \E p \in 1..N : UserCommit(p)
    \/ \E p \in 1..N : RemotePush(p)

SpecMerge == InitShallow /\ [][NextMerge]_vars

(***************************************************************************)
(* One sync of a manifest large enough to fill the channel: MaxWorkers - 1 *)
(* or MaxWorkers projects.  The tasks run after the spawn loop, in the     *)
(* order of the manifest, and every stage succeeds, so each task sends     *)
(* three results; the receive loop runs at any time between their steps.   *)
(***************************************************************************)
LargeManifests ==
    { [i \in 1..n |->
          Project("gitlab.com", "cdsa_rust/manifest", "v0.0.0",
                  "module_" \o ToString(i), <<>>)] :
        n \in {MaxWorkers - 1, MaxWorkers} }

InitChan == InitWith(LargeManifests)

(* the task's turn has come *)
InTurn(p) == orch = "drain" /\ (IF p = 1 THEN TRUE ELSE pc[p - 1] = "done")

NextChan ==
    \/ FirstSync({o \in Options :
                    o.mode = "SSH" /\ o.quiet /\ ~o.lightweight /\ ~o.force})
    \/ Spawn
    \/ \E p \in 1..N : InTurn(p) /\ WorkerInit(p) /\ res'[p].ok
    \/ \E p \in 1..N :
          InTurn(p) /\ WorkerCheckout(p) /\ res'[p].ok /\ pc'[p] = "actions"
    \/ \E p \in 1..N : InTurn(p) /\ WorkerActions(p) /\ res'[p].ok
    \/ Recv
    \/ Return

SpecChan == InitChan /\ [][NextChan]_vars

(* A sync of a manifest of any size: a small one with every interleaving *)
(* and every failure, or a large one as above.                           *)
InitTerm ==
    InitWith(Manifests \cup {m \in LargeManifests : Len(m) = MaxWorkers})

NextTerm ==
    \/ /\ N <= MaxProjects
       /\ \/ FirstSync({o \in Options :
                           o.mode = "SSH" /\ o.quiet /\ ~o.lightweight})
          \/ SyncStep
    \/ N > MaxProjects /\ NextChan

SpecTerm == InitTerm /\ [][NextTerm]_vars

(***************************************************************************)
(* One sync of two projects, the second with a path and actions that are   *)
(* apart from those of the first (as in the manifests of the tests) or     *)
(* that meet them                                                          *)
(***************************************************************************)
SecondProjects ==
    { Project("gitlab.com", "cdsa_rust/manifest", "v0.0.0", PathOf(2), <<>>),
      Project("gitlab.com", "cdsa_rust/manifest", "main", PathOf(3),
              <<FileAction(COPYFILE, "README.md", "cp_README.md"), DeleteProject>>),
      Project("gitlab.com", "cdsa_rust/manifest", "v0.0.0", PathOf(2),
              <<FileAction(COPYFILE, "README.md", "new_folder/ln_README.md")>>),
      Project("gitlab.com", "cdsa_rust/manifest", "v0.0.0", PathOf(2),
              <<FileAction(COPYDIR, "src", PathOf(1))>>),
      Project("gitlab.com", "cdsa_rust/manifest", "v0.0.0", PathOf(1), <<>>) }

FsManifests == { <<Catalog[1], second>> : second \in SecondProjects }

InitFs == InitWith(FsManifests)

NextFs ==
    \/ FirstSync({o \in Options : o.mode = "SSH" /\ o.quiet /\ ~o.lightweight})
    \/ SyncStep

SpecFs == InitFs /\ [][NextFs]_vars

(***************************************************************************)
(* process_command step by step: the select! loop over the child's         *)
(* diagnostic stream, the refresh interval and the child's exit.           *)
(* `mon` holds a single monitored command:                                 *)
(*   stderr    everything the child writes, chunk by chunk                 *)
(*   pending   the chunks the child has not written yet                    *)
(*   unread    the chunks written and not read yet                         *)
(*   exited    the child has exited                                        *)
(*   exitOk    the exit status the child ends with                         *)
(*   pb        the command has a progress bar                              *)
(*   capture   stderr_capture                                              *)
(*   position, message, ticks    the progress bar                          *)
(***************************************************************************)
PercentWords == {"7%", "50%", "100%", "250%"}

(* match_.as_str().parse::<u64>() *)
PercentOf(word) ==
    CASE word = "7%" -> 7
      [] word = "50%" -> 50
      [] word = "100%" -> 100
      [] word = "250%" -> 250

ColonWords == {"Receiving objects:", "remote:"}

(* What one read of at most BUFFER_SIZE bytes can return: whole lines of  *)
(* the stream, with several percentages maybe.  "\n" is the end of a line *)
(* inside a chunk; the end of line that closes a chunk is left out.       *)
ChunkSet ==
    { <<"Receiving objects:", "50%">>,
      <<"Receiving objects:", "7%", "\r", "Receiving objects:", "50%">>,
      <<"remote:", "250%">>,
      <<"fix", "error", "handling">>,
      <<"Receiving objects:", "100%", "\n", "fatal", "early EOF">>,
      <<"fatal", "unable to access remote">> }

RECURSIVE SeqsUpTo(_, _)
SeqsUpTo(S, n) ==
    IF n = 0 THEN {<<>>}
    ELSE LET shorter == SeqsUpTo(S, n - 1)
         IN  shorter \cup {Append(q, x) : q \in shorter, x \in S}

Scripts == SeqsUpTo(ChunkSet, MaxChunks)

(* The rightmost NN% of the chunk, 0 when there is none. *)
LastPercent(chunk) ==
    LET at == {i \in 1..Len(chunk) : chunk[i] \in PercentWords}
    IN  IF at = {} THEN 0 ELSE CHOOSE i \in at : \A j \in at : i >= j

(* re.captures(&msg): the leftmost NN% of the chunk, 0 when there is none *)
FirstPercent(chunk) ==
    LET at == {i \in 1..Len(chunk) : chunk[i] \in PercentWords}
    IN  IF at = {} THEN 0 ELSE CHOOSE i \in at : \A j \in at : i <= j

(* msg.split(":").next(): the chunk up to its first colon *)
Info(chunk) ==
    LET at == {i \in 1..Len(chunk) : chunk[i] \in ColonWords}
    IN  IF at = {} THEN chunk
        ELSE SubSeq(chunk, 1, CHOOSE i \in at : \A j \in at : i <= j)

(* lines.next_line(): a text cut at its ends of lines, which are dropped *)
RECURSIVE next_lines(_)
next_lines(text) ==
    LET at == {i \in 1..Len(text) : text[i] = "\n"}
    IN  IF text = <<>> THEN <<>>
        ELSE IF at = {} THEN <<text>>
        ELSE LET k == CHOOSE i \in at : \A j \in at : i <= j
             IN  <<SubSeq(text, 1, k - 1)>>
                 \o next_lines(SubSeq(text, k + 1, Len(text)))

(* the lines of a run of chunks *)
RECURSIVE LinesOf(_)
LinesOf(chunks) ==
    IF chunks = <<>> THEN <<>>
    ELSE next_lines(Head(chunks)) \o LinesOf(Tail(chunks))

(* An exit arm that leaves the position where the last chunk put it. *)
ExitShownNoForce(m) ==
    IF ~m.pb THEN m
    ELSE IF m.exitOk THEN [m EXCEPT !.message = <<"complete">>]
    ELSE [m EXCEPT !.message = <<"error">>]

(* what the exit arm shows on the progress bar *)
ExitShown(m) ==
    IF ~m.pb THEN m
    ELSE IF m.exitOk
    THEN [m EXCEPT !.position = 100, !.message = <<"complete">>]
    ELSE [m EXCEPT !.message = <<"error">>]

(* The state of one call after command.spawn(): the call has panicked when
   the child could not be started. *)
Spawned(spawn, bar, script, exitOk) ==
    IF ~spawn
    THEN [state |-> "panicked", stderr |-> <<>>, unread |-> <<>>,
          pending |-> <<>>, exited |-> FALSE,
          exitOk |-> FALSE, pb |-> bar, capture |-> <<>>,
          position |-> 0, message |-> <<>>, ticks |-> 0,
          result |-> NoResult]
    ELSE [state |-> "running", stderr |-> script, unread |-> <<>>,
          pending |-> script, exited |-> FALSE,
          exitOk |-> exitOk, pb |-> bar, capture |-> <<>>,
          position |-> 0,
          message |-> IF bar THEN <<"start">> ELSE <<>>,
          ticks |-> 0, result |-> NoResult]

(* A call together with the same call made with the other choice of
   progress bar, against the same child and the same turns of the loop. *)
Both(m, other) == m @@ [twin |-> other]

(* command.spawn().expect(..) and the set-up before the loop *)
MonStartWith(scripts) ==
    /\ mon.state = "idle"
    /\ \E spawn \in BOOLEAN, bar \in BOOLEAN, script \in scripts, exitOk \in BOOLEAN :
         mon' = Both(Spawned(spawn, bar, script, exitOk),
                     Spawned(spawn, ~bar, script, exitOk))
    /\ UNCHANGED syncVars

(* A tick that also moves the bar back to its start. *)
TickReset(m) == IF m.pb THEN [m EXCEPT !.ticks = (@ + 1) % 2, !.position = 0] ELSE m

MonStart == MonStartWith(Scripts)

(* pb.tick() at the end of a turn of the loop *)
Tick(m) == IF m.pb THEN [m EXCEPT !.ticks = (@ + 1) % 2] ELSE m

(* A read arm that keeps what it read only when there is a bar to show it on. *)
ReadArmCaptureInBar(m) ==
    LET msg == Head(m.unread)
        k == FirstPercent(msg)
        shown == IF m.pb
                 THEN [m EXCEPT !.position = IF k # 0 THEN PercentOf(msg[k]) ELSE @,
                                !.message = IF k # 0 THEN <<"start">> \o Info(msg) ELSE @,
                                !.capture = Append(@, msg)]
                 ELSE m
    IN  Tick([shown EXCEPT !.unread = Tail(@)])

(* one turn of the loop through the stderr.read arm *)
ReadArm(m) ==
    LET msg == Head(m.unread)
        k == FirstPercent(msg)
        shown == IF k # 0 /\ m.pb
                 THEN [m EXCEPT !.position = PercentOf(msg[k]),
                                !.message = <<"start">> \o Info(msg)]
                 ELSE m
    IN  Tick([shown EXCEPT !.capture = Append(@, msg),
                           !.unread = Tail(@)])

(* the turn of the loop through the child.wait arm: on failure the rest of
   the stream is read first *)
WaitArm(m) ==
    LET capture == IF m.exitOk THEN m.capture
                   ELSE m.capture \o LinesOf(m.unread)
        out == ExitArm(m.exitOk, capture)
    IN  [ExitShown(m) EXCEPT
           !.state = "returned",
           !.capture = capture,
           !.unread = IF m.exitOk THEN @ ELSE <<>>,
           !.result = IF out.ok THEN OkResult
                      ELSE Err("String", out.err)]

(* the stderr.read arm *)
MonRead ==
    /\ mon.state = "running"
    /\ mon.unread # <<>>
    /\ mon' = [ReadArm(mon) EXCEPT !.twin = ReadArm(@)]
    /\ UNCHANGED syncVars

(* the interval.tick arm *)
MonTick ==
    /\ mon.state = "running"
    /\ mon' = [Tick(mon) EXCEPT !.twin = Tick(@)]
    /\ UNCHANGED syncVars

(* the child writes its next chunk to the diagnostic stream *)
ChildWrite ==
    /\ mon.state = "running"
    /\ mon.pending # <<>>
    /\ LET moved(m) == [m EXCEPT !.unread = Append(@, Head(m.pending)),
                                    !.pending = Tail(@)]
       IN  mon' = [moved(mon) EXCEPT !.twin = moved(@)]
    /\ UNCHANGED syncVars

(* the child exits, having written all it had to write *)
ChildExit ==
    /\ mon.state = "running"
    /\ mon.pending = <<>>
    /\ ~mon.exited
    /\ mon' = [mon EXCEPT !.exited = TRUE, !.twin.exited = TRUE]
    /\ UNCHANGED syncVars

(* the child.wait arm *)
MonExit ==
    /\ mon.state = "running"
    /\ mon.exited
    /\ mon' = [WaitArm(mon) EXCEPT !.twin = WaitArm(@)]
    /\ UNCHANGED syncVars

InitMon == InitWith({SubSeq(Catalog, 1, 1)})

NextMon ==
    MonStart \/ ChildWrite \/ ChildExit \/ MonRead \/ MonTick \/ MonExit

(* One monitored command, from spawn to return. *)
SpecMon == InitMon /\ [][NextMon]_vars

(* select! polls the arms that are ready in a random order: an arm that   *)
(* stays ready is taken in the end.  Nothing is asked of the child.       *)
FairScripts ==
    SeqsUpTo({ <<"Receiving objects:", "50%">>,
               <<"fatal", "unable to access remote">> }, MaxChunks)

NextMonFair ==
    \/ MonStartWith(FairScripts)
    \/ ChildWrite \/ ChildExit \/ MonRead \/ MonTick \/ MonExit

SpecMonFair ==
    InitMon /\ [][NextMonFair]_vars /\ WF_vars(MonRead) /\ WF_vars(MonExit)

(***************************************************************************)
(* Manifest documents, and one parse followed by one compose               *)
(***************************************************************************)
Attr(key) ==
    CASE key = "uri" -> <<"uri", "gitlab.com">>
      [] key = "name" -> <<"name", "cdsa_rust/manifest">>
      [] key = "path" -> <<"path", "./dev">>
      [] key = "revision" -> <<"revision", "v0.0.0">>

(* the attributes a <project> is written with, in the order written *)
AttrVariants ==
    { [i \in 1..Len(keys) |-> Attr(keys[i])] :
        keys \in { <<"uri", "name", "path", "revision">>,
                   <<"name", "path", "revision", "uri">>,
                   <<"name", "path", "revision">>,
                   <<"uri", "name", "path">>,
                   <<"name", "path">>,
                   <<"uri", "path", "revision">>,
                   <<"uri", "name", "revision">> } }

(* no <default>, or one with a revision, a uri or both *)
DefaultVariants ==
    { <<>>,
      <<Line(4, "default", << <<"revision", "dev">> >>, "/>")>>,
      <<Line(4, "default", << <<"uri", "hostname.com">> >>, "/>")>>,
      <<Line(4, "default",
             << <<"revision", "dev">>, <<"uri", "hostname.com">> >>, "/>")>> }

ChildElements ==
    { Line(8, "linkfile",
           << <<"src", "./README.md">>, <<"dest", "./ln_README.md">> >>, "/>"),
      Line(8, "copyfile",
           << <<"src", "./README.md">>, <<"dest", "./cp_README.md">> >>, "/>"),
      Line(8, "linkfile", << <<"src", "./README.md">> >>, "/>"),
      Line(8, "delete_project", <<>>, "/>"),
      Line(8, "delete-project", <<>>, "/>"),
      Line(8, "!--", <<>>, "-->") }

ProjectElement(attrs, children) ==
    IF children = <<>> THEN <<Line(4, "project", attrs, "/>")>>
    ELSE <<Line(4, "project", attrs, ">")>> \o children \o <<PROJECT_END>>

(* a second project, whole or without its path, or none *)
MoreProjects ==
    { <<>>,
      <<Line(4, "project",
             << <<"uri", "gitlab.com">>, <<"name", "cdsa_rust/manifest">>,
                <<"path", "release/v0">>, <<"revision", "main">> >>, "/>")>>,
      <<Line(4, "project",
             << <<"uri", "gitlab.com">>, <<"name", "cdsa_rust/manifest">>,
                <<"revision", "main">> >>, "/>")>> }

(* texts Document::parse refuses *)
Malformed ==
    { <<XML_HEADER, ROOT_BEGIN,
        Line(4, "project", [i \in 1..2 |-> Attr(<<"name", "path">>[i])], ">"),
        ROOT_END>>,
      <<XML_HEADER, ROOT_BEGIN>> }

Documents ==
    { <<XML_HEADER, ROOT_BEGIN>> \o d \o ProjectElement(attrs, children)
        \o more \o <<ROOT_END>> :
        d \in DefaultVariants, attrs \in AttrVariants,
        children \in SeqsUpTo(ChildElements, MaxActions), more \in MoreProjects }
    \cup Malformed

(* read_manifest: the text of the manifest file *)
XmlRead ==
    /\ xml.state = "idle"
    /\ \E text \in Documents :
         xml' = [state |-> "read", text |-> text,
                 result |-> ParseErr("not parsed"), out |-> <<>>]
    /\ UNCHANGED <<workVars, mon, pin>>

(* parser.parse(&file) *)
XmlParse ==
    /\ xml.state = "read"
    /\ xml' = [xml EXCEPT !.state = "parsed", !.result = parse(xml.text)]
    /\ UNCHANGED <<workVars, mon, pin>>

(* parser.compose(&manifest) *)
XmlCompose ==
    /\ xml.state = "parsed"
    /\ xml.result.ok
    /\ xml' = [xml EXCEPT !.state = "composed",
                          !.out = compose(xml.result.projects)]
    /\ UNCHANGED <<workVars, mon, pin>>

InitXml == InitWith({SubSeq(Catalog, 1, 1)})

NextXml == XmlRead \/ XmlParse \/ XmlCompose

(* A manifest text is read, parsed, and composed again. *)
SpecXml == InitXml /\ [][NextXml]_vars

(***************************************************************************)
(* ManifestInstance::pin                                                   *)
(***************************************************************************)
(* the name git prints for a commit *)
CommitName(head) == <<"565b113", "9f2c1aa", "c0ffee1", "0ddba11">>[head]

(* stdout of git rev-parse HEAD, without its line ends *)
GitRevParseHead(r) ==
    IF ~r.inited THEN ""
    ELSE IF r.head = 0 THEN "HEAD"
    ELSE CommitName(r.head)

(* GitVersionControl::get_commit_id: an error only when git cannot be run *)
(* in the project directory                                               *)
get_commit_id(r, project) ==
    IF ~r.exists
    THEN [ok |-> FALSE, id |-> "",
          err |-> Err("FailedToGetCommitId",
                      <<project.path, "\n", "No such file or directory", "\n">>)]
    ELSE [ok |-> TRUE, id |-> GitRevParseHead(r), err |-> OkResult]

(* a pin that forgets the actions *)
Project_pinNoActions(project, commit_id) ==
    Project(project.uri, project.name, commit_id, project.path, <<>>)

(* Project::pin *)
Project_pin(project, commit_id) ==
    Project(project.uri, project.name, commit_id, project.path,
            project.actions)

(* a pin that writes the pinned project into the manifest it is called on *)
SelfAfterPinInPlace(prjs, i, pinned_project) ==
    [prjs EXCEPT ![i] = pinned_project]

(* self.projects after a turn of the loop: pin borrows self, the pinned   *)
(* project goes to the new vector                                         *)
SelfAfterPin(prjs, i, pinned_project) == prjs

(* pin is called on a manifest whose sync is not running *)
PinStart ==
    /\ pin.state = "idle"
    /\ orch \in {"idle", "returned"}
    /\ pin' = [state |-> "loop", i |-> 1, projects |-> <<>>, ids |-> <<>>,
               result |-> NoResult]
    /\ UNCHANGED <<workVars, mon, xml>>

(* one turn of for project in self.projects.iter() *)
PinProject ==
    /\ pin.state = "loop"
    /\ pin.i <= N
    /\ LET project == projects[pin.i]
           commit_id == get_commit_id(repo[pin.i], project)
           pinned_project == Project_pin(project, commit_id.id)
       IN  /\ pin' = IF ~commit_id.ok
                     THEN [pin EXCEPT !.state = "returned",
                                      !.result = commit_id.err]
                     ELSE [pin EXCEPT !.i = @ + 1,
                                      !.ids = Append(@, commit_id.id),
                                      !.projects = Append(@, pinned_project)]
           /\ projects' = SelfAfterPin(projects, pin.i, pinned_project)
    /\ UNCHANGED <<opts, run, orch, spawned, pc, res, chan, errors,
                   syncResult, repo, remote, atStart, hist, pb, fault,
                   progress_bars, barOf, manifest, mon, xml,
                   written>>

(* the new manifest is composed and returned *)
PinReturn ==
    /\ pin.state = "loop"
    /\ pin.i > N
    /\ pin' = [pin EXCEPT
                 !.state = "returned",
                 !.result = [ok |-> TRUE, variant |-> "Ok", msg |-> <<>>,
                             manifest |-> [filename |-> manifest.filename,
                                           file |-> compose(pin.projects),
                                           projects |-> pin.projects]]]
    /\ UNCHANGED <<workVars, mon, xml>>

(* A workspace is synced, or not, and its manifest is pinned. *)
NextPin ==
    \/ pin.state = "idle"
         /\ FirstSync({o \in Options : o.mode = "SSH" /\ o.quiet})
    \/ pin.state = "idle" /\ SyncStep
    \/ PinStart
    \/ PinProject
    \/ PinReturn

SpecPin == Init /\ [][NextPin]_vars

(***************************************************************************)
(* Properties of sync                                                      *)
(***************************************************************************)
Stages == <<"init", "checkout", "actions">>

Last(q) == q[Len(q)]

(* the pipeline of project p ran to its own end: through all three stages, *)
(* or up to the stage that failed                                          *)
Completed(p) ==
    /\ hist[p] # <<>>
    /\ Len(hist[p]) = 3 \/ ~Last(hist[p]).result.ok

(* some stage of project p failed *)
Failed(p) == \E k \in 1..Len(hist[p]) : ~hist[p][k].result.ok

FailedSet == {p \in 1..N : Failed(p)}

(* C1: independent failure domains.  Whatever happens to the other          *)
(* projects, a spawned worker is never blocked at a stage (its next step    *)
(* can always be taken), every project gets a worker before the results     *)
(* are collected, and when sync returns every project has run its pipeline  *)
(* to its own completion or failure.                                        *)
C1_IndependentFailureDomains ==
    /\ \A p \in 1..N :
         /\ pc[p] = "init" => ENABLED WorkerInit(p)
         /\ pc[p] = "checkout" => ENABLED WorkerCheckout(p)
         /\ pc[p] = "actions" => ENABLED WorkerActions(p)
    /\ orch = "drain" => \A p \in 1..N : pc[p] # "idle"
    /\ orch = "returned" => \A p \in 1..N : Completed(p)

(* sync has returned; project 1 failed at init and project 2 ran all its *)
(* three stages with success *)
C1_Witness ==
    /\ orch = "returned"
    /\ N >= 2
    /\ ~hist[1][1].result.ok
    /\ Len(hist[2]) = 3
    /\ \A k \in 1..3 : hist[2][k].result.ok

(* C2: sync returns Ok exactly when no stage of any project failed, and    *)
(* the FailedToSync error otherwise.                                       *)
C2_OkIffNoStageFailed ==
    orch = "returned" =>
        /\ syncResult.ok <=> FailedSet = {}
        /\ ~syncResult.ok => syncResult.variant = "FailedToSync"

(* C3: the aggregated error holds exactly one message for each project     *)
(* whose pipeline failed, none for the others, and is the blank separator  *)
(* followed by each message on a line of its own.                          *)
C3_OneMessagePerFailedProject ==
    orch = "returned" =>
        /\ Len(errors) = Cardinality(FailedSet)
        /\ \A p \in FailedSet :
             \E i \in 1..Len(errors) : errors[i] = Display(Last(hist[p]).result)
        /\ \A i \in 1..Len(errors) :
             \E p \in FailedSet : errors[i] = Display(Last(hist[p]).result)
        /\ FailedSet # {} =>
             syncResult = Err("FailedToSync", <<"\n\n">> \o Lines(errors))

(* C4: a worker runs init, checkout, actions in this order, and starts a   *)
(* stage only after every earlier stage of its project returned success.   *)
C4_StagesInOrder ==
    \A p \in 1..N :
        /\ Len(hist[p]) <= 3
        /\ \A k \in 1..Len(hist[p]) :
             /\ hist[p][k].stage = Stages[k]
             /\ k > 1 => hist[p][k - 1].result.ok
        /\ pc[p] = "checkout" => Len(hist[p]) = 1 /\ hist[p][1].result.ok
        /\ pc[p] = "actions" =>
             Len(hist[p]) = 2 /\ hist[p][1].result.ok /\ hist[p][2].result.ok

(* a worker has ended after a failed checkout, without running its actions, *)
(* and another one after a failed init, without running checkout            *)
C4_Witness ==
    \E p, q \in 1..N :
        /\ pc[p] = "done" /\ Len(hist[p]) = 2 /\ ~hist[p][2].result.ok
        /\ pc[q] = "done" /\ Len(hist[q]) = 1 /\ ~hist[q][1].result.ok

Ended(p) == pc[p] \in {"done", "panicked"}

(* C17 as stated: a result is taken from the channel only when every        *)
(* worker has ended its pipeline.                                           *)
C17_JoinBeforeDrain ==
    [][(orch = "drain" /\ chan # <<>> /\ chan' = Tail(chan)) =>
           \A p \in 1..N : Ended(p)]_vars

(* C17, amended: results are received once every worker has been started,  *)
(* while workers may still be running; sync returns only when every worker *)
(* has ended and the channel is empty.                                     *)
C17_DrainEndsAfterWorkers ==
    /\ errors # <<>> => spawned = N
    /\ orch = "returned" => (chan = <<>> /\ \A p \in 1..N : Ended(p))

(* an error has been received while another worker is still running *)
C17_Witness ==
    /\ N = 2
    /\ errors # <<>>
    /\ \E p \in 1..N : pc[p] \in {"init", "checkout", "actions"}

(* C19: in non-quiet mode, once the pipeline of a project has ended, at    *)
(* whatever stage and with whatever result, its progress bar is finished.  *)
C19_BarFinishedAtEnd ==
    \A p \in 1..N : (~opts.quiet /\ Ended(p)) => pb[p] = "finished"

(* C22: the message of every failure a worker reports carries the path of *)
(* its project, whichever stage failed.                                   *)
C22_FailuresLabelled ==
    \A p \in 1..N : \A k \in 1..Len(hist[p]) :
        LET result == hist[p][k].result
        IN  (~result.ok /\ result # Panicked) =>
                contains(result.msg, projects[p].path)

(* C34: the actions of a project run one at a time in the order of its   *)
(* action list and stop at the first that fails, so that the directory of *)
(* the project is deleted by DeleteProject only after every file action   *)
(* of the project has succeeded.                                          *)
C34_ActionsInOrder ==
    \A p \in 1..N :
        Len(hist[p]) = 3 =>
          LET e == hist[p][3]
              acts == projects[p].actions
              k == Len(e.steps)
          IN  /\ k <= Len(acts)
              /\ e.steps = [i \in 1..k |-> i]
              /\ e.result.ok => k = Len(acts)
              /\ ~e.result.ok =>
                    k >= 1 /\ e.result = ActionErr(projects[p], acts[k])
              /\ \A d \in 1..k :
                    (acts[d] = DeleteProject /\ (e.result.ok \/ d < k)) =>
                       \A i \in 1..Len(acts) :
                          acts[i] # DeleteProject =>
                             i < d /\ (e.result.ok \/ i < k)

(* the copy of a project has run and its directory has then been deleted, *)
(* while the link of the other project failed as the first of its actions *)
C34_Witness ==
    /\ N = 2
    /\ Len(hist[1]) = 3 /\ Len(hist[2]) = 3
    /\ ~hist[1][3].result.ok /\ hist[1][3].steps = <<1>>
    /\ projects[2].actions = <<FileAction(COPYFILE, "README.md", "cp_README.md"),
                               DeleteProject>>
    /\ hist[2][3].result.ok /\ hist[2][3].steps = <<1, 2>>
    /\ ~repo[2].exists

(* C32: the progress bar of a project is not finished before the last    *)
(* stage of the project's pipeline, its actions, has ended.               *)
C32_BarOwnedToTheEnd ==
    \A p \in 1..N : pb[p] = "finished" => Ended(p)

(* C20: in non-quiet mode every indicator exists before the first task is  *)
(* spawned, and at any time each of the N indicators is either still in    *)
(* progress_bars or held by exactly one task: every spawned task holds one *)
(* indicator and no two tasks hold the same one.                           *)
C20_BarsPartitioned ==
    (run > 0 /\ ~opts.quiet) =>
        /\ Len(progress_bars) + spawned = N
        /\ \A k \in 1..Len(progress_bars) : progress_bars[k] = k
        /\ \A p \in 1..N :
              IF pc[p] = "idle" THEN barOf[p] = 0
              ELSE /\ barOf[p] \in 1..N
                   /\ \A k \in 1..Len(progress_bars) : progress_bars[k] # barOf[p]
                   /\ \A q \in 1..N :
                         (q # p /\ pc[q] # "idle") => barOf[q] # barOf[p]

(* both tasks are spawned, each with its own indicator *)
C20_Witness ==
    /\ ~opts.quiet
    /\ N = 2
    /\ spawned = 2
    /\ barOf[1] = 2
    /\ barOf[2] = 1
    /\ pb[1] = "finished"
    /\ pb[2] = "active"

(***************************************************************************)
(* Properties of checkout and init                                         *)
(***************************************************************************)
(* the checkout stage of project p has run; its result *)
CheckedOut(p) == Len(hist[p]) >= 2

CheckoutResult(p) == hist[p][2].result

(* the result of a checkout that the environment made fail: a command that *)
(* could not be spawned, or a remote that did not answer                   *)
EnvFailure(result) ==
    \/ result.variant = "Panic"
    \/ contains(result.msg, "unable to access remote")

(* the two shapes of the "commit or stash" failure: the guard's own         *)
(* message, and git refusing to overwrite the local changes                 *)
CommitOrStash(p, result) ==
    /\ ~result.ok
    /\ result.variant = "FailedToCheckoutRepository"
    /\ \/ result.msg = DirtyMsg(projects[p])
       \/ contains(result.msg, "Please commit your changes or stash them")

C6_UntrackedIgnored ==
    \A p \in 1..N :
        /\ repo[p].untracked /\ ~repo[p].dirty => ~is_modified(repo[p])
        /\ atStart[p].untracked /\ ~atStart[p].dirty /\ CheckedOut(p) =>
             CheckoutResult(p).msg # DirtyMsg(projects[p])

(* a working copy with an untracked file has been checked out with success *)
(* and still has the file                                                  *)
C6_Witness ==
    /\ atStart[1].untracked
    /\ ~atStart[1].dirty
    /\ CheckedOut(1)
    /\ CheckoutResult(1).ok
    /\ pc[1] = "actions"
    /\ repo[1].untracked

(* C9: idempotent re-sync.  A sync without force of a workspace that was   *)
(* synced and clean when it started, in an environment that fails nothing, *)
(* succeeds and leaves every project synced and clean, at the same commit. *)
C9_IdempotentResync ==
    /\ orch = "returned"
    /\ ~opts.force
    /\ \A p \in 1..N : atStart[p].synced /\ ~fault[p]
    => /\ syncResult.ok
       /\ \A p \in 1..N : Synced(p)

(* the second sync of a project that stays on disk has returned *)
C9_Witness ==
    /\ orch = "returned"
    /\ run = 2
    /\ ~opts.force
    /\ atStart[1].synced
    /\ ~fault[1]
    /\ ~HasDelete(projects[1])
    /\ repo[1].head # 0

OriginUrl(project, mode) ==
    IF mode = "HTTPS" THEN get_uri_https(project) ELSE get_uri_ssh(project)

(* the init stage of project p runs in this step *)
InitRuns(p) == pc[p] = "init" /\ pc'[p] \in {"checkout", "done"}

(* C10 as stated: init on a destination that already holds a repository    *)
(* leaves the repository exactly as it was.                                *)
C10_InitSkipped ==
    [][\A p \in 1..N :
         InitRuns(p) /\ repo[p].exists /\ repo[p].inited =>
             repo'[p] = repo[p]]_vars

(* C10: init is not skipped on a destination that already holds a          *)
(* repository: it runs git init again, which keeps the history, HEAD and   *)
(* the working copy, and binds origin to the URL of the requested mode;    *)
(* nothing but the remote binding changes.                                 *)
C10_InitRebindsOrigin ==
    [][\A p \in 1..N :
         InitRuns(p) /\ repo[p].exists /\ repo[p].inited =>
             /\ [repo'[p] EXCEPT !.origin = repo[p].origin] = repo[p]
             /\ pc'[p] = "checkout" =>
                  repo'[p].origin = OriginUrl(projects[p], opts.mode)]_vars

(* a second sync, in the other mode, has run init on the repository the *)
(* first one left, and origin has changed                               *)
C10_Witness ==
    /\ run = 2
    /\ atStart[1].inited
    /\ atStart[1].origin # <<>>
    /\ pc[1] = "checkout"
    /\ repo[1].head # 0
    /\ repo[1].origin # atStart[1].origin

CheckoutOrder == <<"fetch", "checkout", "status", "merge">>

(* C24: the git commands of one checkout call run in the order fetch,      *)
(* checkout, status, merge; the call returns Ok only when none of them     *)
(* failed, it stops at the dirty check exactly when it reports a dirty     *)
(* repository, and the merge never runs on modified tracked files.         *)
C24_CheckoutStepsInOrder ==
    \A p \in 1..N :
        CheckedOut(p) =>
            LET e == hist[p][2]
                n == Len(e.steps)
            IN  /\ e.steps = SubSeq(CheckoutOrder, 1, n)
                /\ e.result.ok => n >= 3
                /\ (~e.result.ok /\ e.result # Panicked) => n \in 1..4
                /\ e.result.msg = DirtyMsg(projects[p]) => n = 3
                /\ (atStart[p].dirty /\ ~opts.force) => n < 4
                /\ (n = 4 /\ orch # "idle") => ~repo[p].dirty

(* the checkout of a modified working copy that is on a branch stopped at  *)
(* the dirty check                                                         *)
C24_Witness ==
    /\ atStart[1].dirty
    /\ ~opts.force
    /\ CheckedOut(1)
    /\ repo[1].attached
    /\ hist[1][2].steps = <<"fetch", "checkout", "status">>
    /\ ~hist[1][2].result.ok

(* the checkout of project p ends in this step at the dirty guard *)
FailsAtGuard(p) ==
    /\ pc[p] = "checkout" /\ pc'[p] # "checkout"
    /\ ~opts.force
    /\ res'[p] = Err("FailedToCheckoutRepository", DirtyMsg(projects[p]))

(* C39 as stated: a checkout without force that fails at the dirty guard *)
(* leaves the checked-out revision as it was before the call.            *)
C39_GuardLeavesHead ==
    [][\A p \in 1..N :
          FailsAtGuard(p) => repo'[p].head = repo[p].head]_vars

(* C39, amended: a checkout without force that fails at the dirty guard   *)
(* has fetched and has switched to the target revision; the modifications *)
(* are still there, no merge has run and the local branch is not moved    *)
(* forward to its upstream.                                               *)
C39_GuardAfterSwitch ==
    [][\A p \in 1..N :
          FailsAtGuard(p) =>
             /\ hist'[p][2].steps = <<"fetch", "checkout", "status">>
             /\ repo'[p].dirty
             /\ repo'[p].merged = repo[p].merged
             /\ opts.lightweight =>
                   repo'[p].head = repo'[p].fetchHead /\ ~repo'[p].attached
             /\ (~opts.lightweight /\ projects[p].revision \in BranchNames) =>
                   /\ repo'[p].attached
                   /\ repo'[p].head = repo'[p].branchTip
                   /\ repo[p].branchTip # 0 =>
                         repo'[p].branchTip = repo[p].branchTip]_vars

(* a shallow checkout has failed at the dirty guard with HEAD on another *)
(* commit than at the start of the sync                                  *)
C39_Witness ==
    /\ ~opts.force
    /\ opts.lightweight
    /\ Len(hist[1]) = 2
    /\ res[1] = Err("FailedToCheckoutRepository", DirtyMsg(projects[1]))
    /\ atStart[1].dirty
    /\ atStart[1].head # 0
    /\ repo[1].head # atStart[1].head

(* C25: the merge runs exactly when the working copy is on a branch after  *)
(* the checkout step (and the dirty check passed), never for a revision    *)
(* that is a tag or a commit; a merge that succeeded left the branch at or *)
(* beyond its upstream, a merge of diverged histories fails, and no merge  *)
(* commit is ever created.                                                 *)
C25_MergeIffOnBranch ==
    \A p \in 1..N :
        /\ ~repo[p].merged
        /\ CheckedOut(p) =>
            LET e == hist[p][2]
                n == Len(e.steps)
                passed == /\ n >= 3
                          /\ e.result # Panicked
                          /\ e.result.msg # DirtyMsg(projects[p])
            IN  /\ (passed /\ repo[p].exists /\ orch # "idle") =>
                      (n = 4 <=> repo[p].attached)
                /\ projects[p].revision \notin BranchNames => n < 4
                /\ (n = 4 /\ e.result.ok /\ repo[p].exists /\ orch # "idle") =>
                      repo[p].head >= repo[p].tracking
                /\ (n = 4 /\ ~e.result.ok /\ e.result # Panicked
                         /\ repo[p].exists /\ orch # "idle") =>
                      (repo[p].tracking = 0 \/
                       (repo[p].ahead /\ repo[p].tracking > repo[p].head))

(* the merge was run on a branch that has diverged from its upstream, and *)
(* the checkout failed                                                    *)
C25_Witness ==
    /\ CheckedOut(1)
    /\ hist[1][2].steps = CheckoutOrder
    /\ ~hist[1][2].result.ok
    /\ repo[1].ahead
    /\ repo[1].attached
    /\ repo[1].tracking > repo[1].head
    /\ contains(hist[1][2].result.msg, "Not possible to fast-forward, aborting.")

(* C26: every checkout fetches with --depth 1 and the project's revision   *)
(* when the sync is shallow, with --unshallow when it is not and the       *)
(* repository is shallow at that moment, and with a plain pruning fetch    *)
(* otherwise; a fetch that succeeded leaves the repository shallow exactly *)
(* when the sync is shallow.                                               *)
C26_FetchMode ==
    [][\A p \in 1..N :
         (pc[p] = "checkout" /\ pc'[p] # "checkout") =>
             LET e == hist'[p][2]
             IN  /\ e.fetch =
                       IF opts.lightweight
                       THEN <<"fetch", "--progress", "--tags", "--prune",
                              "--depth", "1", "origin", projects[p].revision>>
                       ELSE IF repo[p].shallow
                       THEN <<"fetch", "--progress", "--tags", "--prune",
                              "--unshallow", "origin">>
                       ELSE <<"fetch", "--progress", "--tags", "--prune", "origin">>
                 /\ Len(e.steps) >= 2 => repo'[p].shallow = opts.lightweight]_vars

(* a second sync, not shallow, has unshallowed the repository a shallow    *)
(* sync had left                                                           *)
C26_Witness ==
    /\ run = 2
    /\ ~opts.lightweight
    /\ CheckedOut(1)
    /\ contains(hist[1][2].fetch, "--unshallow")
    /\ hist[1][2].result.ok
    /\ ~repo[1].shallow

(* C23: once the init stage of a project has succeeded, origin of its      *)
(* repository is https://{uri}/{name}.git when the mode is HTTPS and       *)
(* git@{uri}:{name}.git when the mode is SSH.                              *)
C23_OriginOfMode ==
    \A p \in 1..N :
        (hist[p] # <<>> /\ hist[p][1].result.ok /\ repo[p].exists) =>
            /\ opts.mode = "HTTPS" =>
                  repo[p].origin =
                      <<"https://", projects[p].uri, "/", projects[p].name, ".git">>
            /\ opts.mode = "SSH" =>
                  repo[p].origin =
                      <<"git@", projects[p].uri, ":", projects[p].name, ".git">>

(* init has bound origin to the https URL of the project of the tests *)
C23_Witness ==
    /\ opts.mode = "HTTPS"
    /\ pc[1] = "checkout"
    /\ repo[1].origin = <<"https://", "gitlab.com", "/", "cdsa_rust/manifest", ".git">>

(***************************************************************************)
(* Properties of the progress monitor                                      *)
(***************************************************************************)
HasMarker(lines) == \E i \in 1..Len(lines) : IsMarkerLine(lines[i])

(* C7 as stated: a command whose diagnostic stream has a marker line is *)
(* failed, whatever its exit status.                                    *)
C7_MarkerFails ==
    mon.state = "returned" /\ HasMarker(mon.stderr) => ~mon.result.ok

(* C7: a monitored command is failed exactly when its process exits with a *)
(* status other than zero; marker lines only choose the text of the error. *)
C7_FailsIffExitNonZero ==
    mon.state = "returned" =>
        /\ mon.result.ok <=> mon.exitOk
        /\ ~mon.exitOk =>
             mon.result = Err("String", ErrorMessage(mon.capture))

(* a command that wrote a fatal line and exited with zero has returned Ok *)
C7_Witness ==
    /\ mon.state = "returned"
    /\ mon.exitOk
    /\ \E i \in 1..Len(mon.stderr) : contains(mon.stderr[i], "fatal")
    /\ mon.result.ok

NoisyEnv ==
    [net |-> TRUE, spawnFail |-> 0, conflict |-> FALSE, noise |-> TRUE, sha |-> TRUE]

(* C8: a command that exits with zero is a success even when the words     *)
(* error or fatal are in its output, and the checkout of a revision whose  *)
(* fetch and checkout print them returns Ok.                               *)
C8_ExitZeroIsSuccess ==
    /\ mon.state = "returned" /\ mon.exitOk /\ HasMarker(mon.capture) =>
         mon.result = OkResult
    /\ \A project \in {Catalog[i] : i \in 1..Len(Catalog)},
          force \in BOOLEAN, lightweight \in BOOLEAN :
         LET r == init(Absent, project, "HTTPS", "ok").repo
         IN  checkout(r, project, force, lightweight, NoisyEnv, 1).result.ok

(* the monitor has read a line with the word error, as of a commit        *)
(* message, from a command that then exited with zero                     *)
C8_Witness ==
    /\ mon.state = "returned"
    /\ mon.exitOk
    /\ \E i \in 1..Len(mon.capture) : mon.capture[i] = <<"fix", "error", "handling">>
    /\ mon.result = OkResult

(* the diagnostic stream of the command as lines, and a text without its *)
(* ends of lines                                                         *)
StreamLines == LinesOf(mon.stderr)

NoLF(text) == SelectSeq(text, LAMBDA w : w # "\n")

(* C27: when the process exits with a status other than zero the error is  *)
(* the concatenation of the lines of the diagnostic stream from the first  *)
(* line with fatal or error on, nothing before it and nothing after it     *)
(* left out, and it is the generic message only when no line has a marker. *)
C27_ErrorFromFirstMarkerLine ==
    mon.state = "returned" /\ ~mon.exitOk =>
        /\ ~mon.result.ok
        /\ NoLF(mon.result.msg) = ErrorMessage(StreamLines)

(* C28: whenever process_command returns Ok for a command with a progress *)
(* bar, the bar's position is 100 and its message is the complete         *)
(* message, whatever percentages were read before the exit.               *)
C28_CompleteAtHundred ==
    mon.state = "returned" /\ mon.result = OkResult /\ mon.pb =>
        /\ mon.position = 100
        /\ mon.message = <<"complete">>

(* a command with a bar whose last percentage read was 50 has returned Ok *)
C28_Witness ==
    /\ mon.state = "returned"
    /\ mon.result = OkResult
    /\ mon.pb
    /\ mon.capture # <<>>
    /\ mon.capture[Len(mon.capture)] = <<"Receiving objects:", "50%">>
    /\ mon.position = 100

(* C29: each chunk read from the diagnostic stream that has percentages  *)
(* sets the position of the progress bar to the last percentage in it.   *)
C29_LastPercentOfChunk ==
    [][mon.state = "running" /\ mon.pb /\ mon'.state = "running"
       /\ Len(mon'.capture) = Len(mon.capture) + 1 =>
          LET msg == mon'.capture[Len(mon'.capture)]
          IN  LastPercent(msg) # 0 =>
                mon'.position = PercentOf(msg[LastPercent(msg)])]_vars

(* C30: the position of a progress bar is always within 0..100, whatever *)
(* chunks the child writes, percentages above 100 included.              *)
C30_PositionInRange ==
    mon.state # "idle" /\ mon.pb => mon.position \in 0..100

C40_QuietOnlyChangesTheBar ==
    mon.state # "idle" =>
        LET other == mon.twin
        IN  /\ other.pb = ~mon.pb
            /\ other.state = mon.state
            /\ other.stderr = mon.stderr
            /\ other.exitOk = mon.exitOk
            /\ other.exited = mon.exited
            /\ other.pending = mon.pending
            /\ other.unread = mon.unread
            /\ other.capture = mon.capture
            /\ other.result = mon.result

(* a failed command whose error text was captured chunk by chunk, drawn on a
   bar in one call and on nothing in the other *)
C40_Witness ==
    /\ mon.state = "returned"
    /\ mon.pb
    /\ ~mon.result.ok
    /\ mon.result.msg # <<"Failed to capture git error message">>
    /\ Len(mon.capture) > 1
    /\ mon.twin.result = mon.result
    /\ mon.message # mon.twin.message

(***************************************************************************)
(* Properties of the manifest parser and composer                          *)
(***************************************************************************)
Keys(line) == [i \in 1..Len(line.attrs) |-> line.attrs[i][1]]

IsProjectNode(line) == line.name = "project"

(* the text has the layout compose gives a manifest: declaration, root,    *)
(* projects with uri, name, path and revision in this order, closed on the *)
(* spot when they have no action, file actions with src and dest, and a    *)
(* delete element, if any, as the last action                              *)
Canonical(text) ==
    /\ WellFormed(text)
    /\ Len(text) >= 3
    /\ text[1] = XML_HEADER
    /\ text[2] = ROOT_BEGIN
    /\ \A i \in 3..(Len(text) - 1) :
         LET line == text[i]
         IN  \/ /\ line.name = "project"
                /\ line.indent = 4
                /\ Keys(line) = <<"uri", "name", "path", "revision">>
                /\ line.end = ">" => text[i + 1].name # "/project"
             \/ line = PROJECT_END
             \/ /\ is_file_action(line.name)
                /\ line.indent = 8
                /\ Keys(line) = <<"src", "dest">>
             \/ /\ line.name \in {"delete-project", DELETE_PROJECT}
                /\ line.indent = 8
                /\ line.attrs = <<>>
                /\ text[i + 1] = PROJECT_END

(* C13: round trip.  Composing what was parsed from a valid manifest text  *)
(* in canonical layout gives the same text back.                           *)
C13_RoundTrip ==
    xml.state = "composed" /\ Canonical(xml.text) => xml.out = xml.text

(* C37: parsing what compose wrote for a list of projects gives the list *)
(* back: as many projects, in the same order, each with the same uri,    *)
(* name, path, revision and actions, a DeleteProject included.           *)
C37_ParseOfCompose ==
    xml.state = "composed" =>
        LET back == parse(xml.out)
        IN  /\ back.ok
            /\ back.projects = xml.result.projects

DeleteCount(actions) ==
    Cardinality({i \in 1..Len(actions) : actions[i] = DeleteProject})

(* C14: every parsed project has at most one DeleteProject among its       *)
(* actions, and it is the last one, however many delete elements the       *)
(* document has and wherever they are.                                     *)
C14_DeleteProjectLast ==
    xml.state \in {"parsed", "composed"} /\ xml.result.ok =>
        \A k \in 1..Len(xml.result.projects) :
            LET actions == xml.result.projects[k].actions
            IN  /\ DeleteCount(actions) <= 1
                /\ \A i \in 1..Len(actions) :
                     actions[i] = DeleteProject => i = Len(actions)

(* a project written with two delete elements and a link between them has *)
(* been parsed: the link comes first, one DeleteProject comes last        *)
C14_Witness ==
    /\ xml.state = "parsed"
    /\ xml.result.ok
    /\ \E i \in 1..(Len(xml.text) - 2) :
         /\ xml.text[i].name = DELETE_PROJECT
         /\ xml.text[i + 1].name = "linkfile"
         /\ xml.text[i + 2].name = DELETE_PROJECT
    /\ Len(xml.result.projects[1].actions) = 2
    /\ xml.result.projects[1].actions[2] = DeleteProject

(* the file actions the elements of a project add, in the order of the text *)
RECURSIVE FileActionsOf(_)
FileActionsOf(children) ==
    IF children = <<>> THEN <<>>
    ELSE LET c == Head(children)
         IN  (IF is_file_action(c.name)
              THEN <<FileAction(c.name, attribute(c, "src")[1],
                                attribute(c, "dest")[1])>>
              ELSE <<>>)
             \o FileActionsOf(Tail(children))

FirstProjectLine(text) ==
    LET at == {i \in 1..Len(text) : text[i].name = "project"}
    IN  CHOOSE i \in at : \A j \in at : i <= j

(* C35: after the calls of add_file_action and add_delete_project and the  *)
(* sort_actions that ends them, the file actions are in the action list in *)
(* the order they were added, and another sort_actions changes nothing.    *)
C35_FileActionsKeepOrder ==
    xml.state \in {"parsed", "composed"} /\ xml.result.ok =>
        LET actions == xml.result.projects[1].actions
            children == Children(xml.text, FirstProjectLine(xml.text))
        IN  /\ SelectSeq(actions, LAMBDA a : a # DeleteProject)
                  = FileActionsOf(children)
            /\ sort_actions(actions) = actions

(* a project written as delete, copy, link has been parsed: copy, link,   *)
(* delete                                                                 *)
C35_Witness ==
    /\ xml.state = "parsed"
    /\ xml.result.ok
    /\ LET children == Children(xml.text, FirstProjectLine(xml.text))
       IN  /\ Len(children) = 3
           /\ children[1].name = DELETE_PROJECT
           /\ children[2].name = "copyfile"
           /\ children[3].name = "linkfile"
    /\ LET actions == xml.result.projects[1].actions
       IN  /\ Len(actions) = 3
           /\ actions[1].tag = COPYFILE
           /\ actions[2].tag = LINKFILE
           /\ actions[3] = DeleteProject

(* a project element without name or path, or a link or copy element *)
(* without src or dest                                               *)
Incomplete(line) ==
    \/ /\ line.name = "project"
       /\ (attribute(line, "name") = <<>> \/ attribute(line, "path") = <<>>)
    \/ /\ is_file_action(line.name)
       /\ (attribute(line, "src") = <<>> \/ attribute(line, "dest") = <<>>)

(* C36: parse is all or nothing.  When a project element has no name or   *)
(* no path, or a link or copy element has no src or no dest, parse returns *)
(* FailedToParseManifest and no project; an element that is no action is   *)
(* left out and does not fail the parse.                                   *)
C36_ParseAllOrNothing ==
    xml.state \in {"parsed", "composed"} /\ WellFormed(xml.text) =>
        IF \E i \in 1..Len(xml.text) : Incomplete(xml.text[i])
        THEN /\ ~xml.result.ok
             /\ xml.result.projects = <<>>
             /\ xml.result.err.variant = "FailedToParseManifest"
        ELSE /\ xml.result.ok
             /\ Len(xml.result.projects)
                   = Cardinality({i \in 1..Len(xml.text) :
                                     xml.text[i].name = "project"})
             /\ xml.result.projects[1].actions = 
                   sort_actions(
                     (LET children == Children(xml.text,
                                               FirstProjectLine(xml.text))
                      IN  FileActionsOf(children)
                          \o (IF \E j \in 1..Len(children) :
                                      children[j].name = DELETE_PROJECT
                              THEN <<DeleteProject>> ELSE <<>>)))

(* a whole project followed by one without a path has been refused *)
C36_Witness ==
    /\ xml.state = "parsed"
    /\ WellFormed(xml.text)
    /\ ~Incomplete(xml.text[FirstProjectLine(xml.text)])
    /\ \A j \in 1..Len(Children(xml.text, FirstProjectLine(xml.text))) :
          ~Incomplete(Children(xml.text, FirstProjectLine(xml.text))[j])
    /\ \E i \in 1..Len(xml.text) :
          /\ xml.text[i].name = "project"
          /\ attribute(xml.text[i], "path") = <<>>
    /\ ~xml.result.ok
    /\ xml.result.projects = <<>>

(* a project with a link and an element that is no action has been parsed *)
C36_WitnessIgnored ==
    /\ xml.state = "parsed"
    /\ xml.result.ok
    /\ LET children == Children(xml.text, FirstProjectLine(xml.text))
       IN  /\ Len(children) = 2
           /\ children[1].name = "delete-project"
           /\ children[2].name = "linkfile"
    /\ Len(xml.result.projects[1].actions) = 1

(* the value a project gets for an attribute: its own, else the one of the *)
(* manifest's <default>, else the fallback                                 *)
Resolved(text, node, key, fallback) ==
    LET defaults == SelectSeq(text, LAMBDA l : l.name = "default")
    IN  IF \E i \in 1..Len(node.attrs) : node.attrs[i][1] = key
        THEN attribute(node, key)[1]
        ELSE IF defaults # <<>> /\ attribute(defaults[1], key) # <<>>
        THEN attribute(defaults[1], key)[1]
        ELSE fallback

(* C15: the revision (the uri) of a parsed project is its own attribute if *)
(* present, else the attribute of <default> if present, else "main"        *)
(* ("github.com").                                                         *)
C15_DefaultPropagation ==
    xml.state \in {"parsed", "composed"} /\ xml.result.ok =>
        LET nodes == SelectSeq(xml.text, IsProjectNode)
        IN  /\ Len(xml.result.projects) = Len(nodes)
            /\ \A k \in 1..Len(nodes) :
                 /\ xml.result.projects[k].revision =
                      Resolved(xml.text, nodes[k], "revision", "main")
                 /\ xml.result.projects[k].uri =
                      Resolved(xml.text, nodes[k], "uri", "github.com")

(* a project without revision and uri, in a manifest whose <default> has a *)
(* revision only, has been parsed                                          *)
C15_Witness ==
    /\ xml.state = "parsed"
    /\ xml.result.ok
    /\ xml.text[3].name = "default"
    /\ Keys(xml.text[3]) = <<"revision">>
    /\ Keys(xml.text[4]) = <<"name", "path">>
    /\ xml.result.projects[1].revision = "dev"
    /\ xml.result.projects[1].uri = "github.com"

(***************************************************************************)
(* Properties of pin                                                       *)
(***************************************************************************)
(* C11: the manifest pin returns has the projects of the input, in the     *)
(* same order, each with the commit identifier the revision query gave     *)
(* for it as revision and with the uri, name, path and actions it had.     *)
C11_PinnedProjects ==
    pin.state = "returned" /\ pin.result.ok =>
        LET out == pin.result.manifest.projects
        IN  /\ Len(out) = Len(projects)
            /\ Len(pin.ids) = Len(projects)
            /\ \A i \in 1..Len(projects) :
                 /\ out[i].revision = pin.ids[i]
                 /\ pin.ids[i] = get_commit_id(repo[i], projects[i]).id
                 /\ out[i].uri = projects[i].uri
                 /\ out[i].name = projects[i].name
                 /\ out[i].path = projects[i].path
                 /\ out[i].actions = projects[i].actions

(* a synced manifest of two projects has been pinned: the tag of the second *)
(* project became the name of a commit, the link of the first was kept      *)
C11_Witness ==
    /\ pin.state = "returned"
    /\ pin.result.ok
    /\ Len(projects) = 2
    /\ projects[2].revision = "v0.0.0"
    /\ pin.result.manifest.projects[2].revision = CommitName(1)
    /\ pin.result.manifest.projects[1].actions # <<>>

(* C12: pin never changes the manifest it is called on: no step of pin,    *)
(* whether pin ends with Ok or Err, changes its filename, its text or a    *)
(* project.                                                                *)
C12_PinLeavesSelf ==
    [][pin' # pin => projects' = projects /\ manifest' = manifest]_vars

(* pin has returned a manifest whose first revision differs from the one *)
(* of the manifest it was called on, which still has its own             *)
C12_Witness ==
    /\ pin.state = "returned"
    /\ pin.result.ok
    /\ projects[1].revision = "dev"
    /\ pin.result.manifest.projects[1].revision # "dev"
    /\ manifest.file = ManifestText(projects)
    /\ pin.result.manifest.file # manifest.file

(* the revision query of project i yields the commit that is checked out *)
HasCommit(i) == repo[i].exists /\ repo[i].inited /\ repo[i].head # 0

(* C33: pin returns Ok only if the revision query gave the checked-out    *)
(* commit for every project; when the query fails for a project (git      *)
(* rev-parse exiting with a status other than zero included) pin returns  *)
(* an error and no manifest and does not query the projects after it.     *)
C33_PinNeedsEveryCommit ==
    pin.state = "returned" =>
        /\ pin.result.ok =>
             \A i \in 1..N :
                /\ HasCommit(i)
                /\ pin.result.manifest.projects[i].revision
                      = CommitName(repo[i].head)
        /\ \A i \in 1..N :
             (~HasCommit(i) /\ \A j \in 1..(i - 1) : HasCommit(j)) =>
                /\ ~pin.result.ok
                /\ Len(pin.ids) = i - 1

(***************************************************************************)
(* Properties of a shallow sync                                            *)
(***************************************************************************)
(* C16: in a shallow (lightweight) sync, the checkout of a project whose   *)
(* revision is a commit identifier never returns Ok.                       *)
C16_ShallowCommitIdFails ==
    \A p \in 1..N :
        (opts.lightweight /\ projects[p].revision \in CommitIds) =>
            \A k \in 1..Len(hist[p]) :
                hist[p][k].stage = "checkout" => ~hist[p][k].result.ok

(***************************************************************************)
(* Properties of the result channel                                        *)
(***************************************************************************)
Running(p) == pc[p] \in {"init", "checkout", "actions"}

(* send_result(..).await does not complete: the channel has no room *)
Blocked(p) == Running(p) /\ ~CanSend

(* C18 as stated: whatever the number of projects, no worker is blocked on *)
(* sending a result.                                                       *)
C18_NeverBlocked == \A p \in 1..N : ~Blocked(p)

(* C18, amended: the channel never holds more than ChannelCapacity results; *)
(* with at most ChannelCapacity \div 3 projects no worker is ever blocked;  *)
(* with more, a worker is blocked only while the channel holds             *)
(* ChannelCapacity results, and then the orchestrator can go on (spawn the *)
(* next task or receive a result).                                         *)
C18_BlockedOnlyWhenFull ==
    /\ Len(chan) <= ChannelCapacity
    /\ 3 * N <= ChannelCapacity => \A p \in 1..N : ~Blocked(p)
    /\ \A p \in 1..N :
          Blocked(p) => /\ Len(chan) = ChannelCapacity
                        /\ 3 * N > ChannelCapacity
                        /\ (ENABLED Spawn) \/ (ENABLED Recv)

(* a task waits for room in the channel *)
C18_Witness == \E p \in 1..N : Blocked(p) /\ Len(hist[p]) = 2

(* what is left to do: the start, the tasks to spawn, two for each stage *)
(* a task has not run, the results in the channel, the return           *)
StagesLeft ==
    3 * Cardinality({p \in 1..N : pc[p] \in {"idle", "init"}})
    + 2 * Cardinality({p \in 1..N : pc[p] = "checkout"})
    + Cardinality({p \in 1..N : pc[p] = "actions"})

Work ==
    (IF run = 0 THEN 1 ELSE 0) + (N - spawned) + 2 * StagesLeft
    + Len(chan) + (IF orch = "returned" THEN 0 ELSE 1)

(* a step of the sync can be taken: the start, a spawn, a stage of a task *)
(* whose turn it is, a receive or the return                             *)
CanStep ==
    \/ ENABLED FirstSync(Options)
    \/ ENABLED Spawn
    \/ ENABLED Recv
    \/ ENABLED Return
    \/ \E p \in 1..N :
          /\ Running(p)
          /\ N > MaxProjects => InTurn(p)
          /\ ENABLED (WorkerInit(p) \/ WorkerCheckout(p) \/ WorkerActions(p))

(* C38: sync ends, whatever the number of projects.  As long as sync has *)
(* not returned a step can be taken (a command that ends, a send, a      *)
(* receive, the return), and every step lessens the work left: with a    *)
(* runtime that runs what can run, every task ends, the channel is       *)
(* closed and sync returns.  And sync does not return before every task  *)
(* has ended.                                                            *)
C38_SyncTerminates ==
    /\ [](orch # "returned" => CanStep)
    /\ [][Work' < Work]_vars
    /\ [](orch = "returned" => chan = <<>> /\ \A p \in 1..N : Ended(p))

(* sync has returned from a manifest whose results do not all fit in the *)
(* channel                                                               *)
C38_Witness ==
    /\ orch = "returned"
    /\ 3 * N > ChannelCapacity
    /\ syncResult.ok

(***************************************************************************)
(* Properties of the workers' writes                                       *)
(***************************************************************************)
Overlap(a, b) == Under(a, b) \/ Under(b, a)

Locations ==
    {".", "dev", "release", "release/v0", "no_revision", "extra", "new_folder",
     "new_folder/ln_README.md", "cp_README.md", "new_dev", "new_dev/src"}

WritesOf(p) == {w[1] : w \in {x \in written : x[2] = p}}

(* the locations the manifest names for a project *)
Declared(project) ==
    {project.path} \cup
    {project.actions[k].dest :
        k \in {j \in 1..Len(project.actions) :
                  project.actions[j].tag # DELETE_PROJECT}}

ManifestDisjoint ==
    \A p, q \in 1..N :
        p # q => \A a \in Declared(projects[p]), b \in Declared(projects[q]) :
                    ~Overlap(a, b)

====
